---- MODULE Spec2Model ----
(***************************************************************************)
(* A model of scuttlebutt's repository store (Store, backed by bolt and a  *)
(* RemoteStore resolver) and of the calls its clients make on it.          *)
(*                                                                         *)
(* bolt is taken as given: db.Update runs its function while holding the   *)
(* single writer lock and commits iff the function returns nil; db.View    *)
(* reads the last committed state.  proto.Marshal / proto.Unmarshal are    *)
(* taken as inverse on internal.Repository values, so the bucket holds     *)
(* internal.Repository records directly.                                   *)
(*                                                                         *)
(* Three more programs are modelled on variables of their own, each under  *)
(* its own specification: the earlier JSON store DB / Tx with its          *)
(* status/blacklist notifier loop (SpecDB), the notifier loop of           *)
(* scuttlebuttd running on Store (SpecNotifier), and a TopRepositories     *)
(* read transaction followed cursor step by cursor step while writers      *)
(* commit (SpecSnapshot).                                                  *)
(***************************************************************************)
EXTENDS Integers, Sequences, FiniteSets, TLC

\* ------------------------------------------------------------------ bounds
MaxRepos == 2      \* how many distinct repository IDs callers mention
MaxMsgID == 2      \* message IDs are 1..MaxMsgID
MaxCalls == 4      \* how many calls are made on the store in one run
MaxTime == 5       \* the clock runs from 1 to MaxTime
MaxPolled == 1     \* how many mentions the poller delivers while the notifier runs
MaxOver == 1       \* scuttlebuttd's clock runs to DefaultNotifyInterval + MaxOver
MaxBeside == 3     \* how many calls are made while reads are followed step by step
MaxWaiting == 2    \* how many calls are made while the resolver's answers are awaited

\* -------------------------------------------------------------- constants
\* scuttlebuttd's intervals, in units of half an hour.
DefaultNotifyInterval == 8        \* 4 * time.Hour
DefaultNotifyCheckInterval == 1   \* 30 * time.Minute

\* Repository IDs, listed in bolt's key (byte) order.
AllKeys ==
  << "github.com/a/go1", "github.com/a/go2", "github.com/b/js1", "github.com/c/lib" >>

RepoIDs == { AllKeys[i] : i \in 1..MaxRepos }
MsgIDs == 1..MaxMsgID
Texts == { "A", "B" }
Langs == { "", "go" }
Descriptions == { "lorem ipsum" }
RemoteErrors == { "get repository: marker" }

\* ------------------------------------------------------------------ errors
NoErr == "nil"
ErrRepositoryNotFound == "repository not found"
errDuplicateMessage == "duplicate message"

\* github.ErrInvalidRepositoryID
ErrInvalidRepositoryID == "invalid repository id"

\* fmt.Errorf("remote: %s", err)
WrapRemote(e) == "remote: " \o e

\* ------------------------------------------------------------------ values
\* A Go pointer that may be nil is a sequence of length 0 or 1.
Nil == << >>
Ptr(x) == << x >>

\* scuttlebutt.Message as handed to AddMessage.  Mention 1 is delivered with
\* either text, the other mentions always with the same text.
Messages ==
  { m \in [ ID : MsgIDs, Text : Texts, RepositoryID : RepoIDs ] :
      m.ID = 1 \/ m.Text = "A" }

\* encodeMessage: the internal message keeps the ID and the text only.
encodeMessage(m) == [ ID |-> m.ID, Text |-> m.Text ]

\* decodeMessage: RepositoryID is left at its zero value.
decodeMessage(pb) == [ ID |-> pb.ID, Text |-> pb.Text, RepositoryID |-> "" ]

\* encodeRepository
encodeRepository(r) ==
  [ ID |-> r.ID, Description |-> r.Description, Language |-> r.Language,
    Notified |-> r.Notified,
    Messages |-> [ i \in 1..Len(r.Messages) |-> encodeMessage(r.Messages[i]) ] ]

\* Variant: the notified flag is not read from the record.
decodeRepositoryUnflagged(pb) ==
  [ ID |-> pb.ID, Description |-> pb.Description, Language |-> pb.Language,
    Notified |-> FALSE,
    Messages |-> [ i \in 1..Len(pb.Messages) |-> decodeMessage(pb.Messages[i]) ] ]

\* decodeRepository
decodeRepository(pb) ==
  [ ID |-> pb.ID, Description |-> pb.Description, Language |-> pb.Language,
    Notified |-> pb.Notified,
    Messages |-> [ i \in 1..Len(pb.Messages) |-> decodeMessage(pb.Messages[i]) ] ]

\* github.Store.Repository on success: the requested ID with the language and
\* description GitHub reports, no messages, not notified.
RemoteRepository(id, lang, desc) ==
  [ ID |-> id, Description |-> desc, Language |-> lang, Notified |-> FALSE,
    Messages |-> << >> ]

\* A repository ID that is not a host, a user and a name.
MalformedID == "github.com/a"

\* len(strings.Split(id, "/"))
segments(id) == IF id = MalformedID THEN 2 ELSE 3

\* Variant: the ID is not parsed.
RemoteRepliesUnparsed(id) ==
  [ kind : {"error"}, err : RemoteErrors, repo : {Nil} ]
    \cup [ kind : {"notfound"}, err : {NoErr}, repo : {Nil} ]
    \cup { [ kind |-> "ok", err |-> NoErr, repo |-> Ptr(RemoteRepository(id, l, d)) ]
           : l \in Langs, d \in Descriptions }

\* What RemoteStore.Repository(id) can return: (nil, err), (nil, nil),
\* (repo, nil); for an ID of other than three segments, the error of
\* "Parse repository ID" and nothing else.
RemoteReplies(id) ==
  IF segments(id) # 3
    THEN { [ kind |-> "error", err |-> ErrInvalidRepositoryID, repo |-> Nil ] }
  ELSE [ kind : {"error"}, err : RemoteErrors, repo : {Nil} ]
    \cup [ kind : {"notfound"}, err : {NoErr}, repo : {Nil} ]
    \cup { [ kind |-> "ok", err |-> NoErr, repo |-> Ptr(RemoteRepository(id, l, d)) ]
           : l \in Langs, d \in Descriptions }

VARIABLES
  db,       \* bucket "repositories" as last committed: key -> internal.Repository
  wtx,      \* the write transaction waiting on the resolver: Nil or Ptr(message)
  ret,      \* what the most recently completed call returned
  marked,   \* history: IDs for which MarkNotified returned nil
  created,  \* history: messages whose AddMessage materialized a record
  calls     \* how many calls have been made

\* The earlier store, DB: its buckets as last committed.
VARIABLES
  repositories,  \* bucket "repositories": key -> JSON of a Repository
  blacklist,     \* bucket "blacklist": its keys
  status,        \* bucket "status": username -> JSON of an AccountStatus
  out            \* what the most recently completed call on a Tx returned

\* The notifier loops.
VARIABLES
  accounts,      \* the configured accounts, in configuration order
  interval,      \* the configured notify interval
  now,           \* the clock
  sent           \* history: the sends that succeeded, as (account, repo, time)

\* The notifier of scuttlebuttd, and Twitter as it sees it.
VARIABLES
  lastTweetTime, \* Notifier.lastTweetTime of each account's notifier
  timeline,      \* at Twitter: when each account last tweeted, 0 for never
  tick           \* Main.notify under way: Nil, or Ptr of its repos and index

\* A read transaction of Store followed step by step.
VARIABLES
  rtx            \* Nil, or Ptr of the snapshot, the cursor and the map so far

\* scuttlebuttd's goroutines and its shutdown.
VARIABLES
  closing,       \* Main.closing: "nil", "open" or "closed"
  wg,            \* Main.wg: the WaitGroup's counter
  pc             \* where runPoller, runNotifier and the caller of Close are

\* scuttlebuttd's poller.
VARIABLES
  sinceID,       \* runPoller's sinceID
  batch,         \* Main.poll under way: Nil, or Ptr of the messages left to save
  failed         \* history: the messages whose AddMessage made poll return an error

storeVars == << db, wtx, ret, marked, created, calls >>
dbVars == << repositories, blacklist, status, out >>
loopVars == << accounts, interval, now, sent >>
mainVars == << lastTweetTime, timeline, tick >>
runVars == << closing, wg, pc >>
pollVars == << sinceID, batch, failed >>
daemonVars == << runVars, pollVars >>

vars == << storeVars, dbVars, loopVars, mainVars, rtx, daemonVars >>

\* What a call on Store leaves alone.
notStore == << dbVars, loopVars, mainVars, rtx, daemonVars >>

\* ret.prev: when the call before this one was the same call with the very
\* same argument (AddMessage with the same message, MarkNotified with the
\* same ID), the error that call returned; Nil otherwise.
\* ret.reply: what the resolver returned inside the call, Nil when the call
\* did not ask it.
NoRet ==
  [ op |-> "none", m |-> Nil, id |-> "", err |-> NoErr, local |-> FALSE,
    remote |-> "none", prev |-> Nil, val |-> << >>, reply |-> Nil ]

\* ------------------------------------------------------------- store reads
\* Store.repository: the record under id, or nil.
repository(b, id) == IF id \in DOMAIN b THEN Ptr(b[id]) ELSE Nil

\* Store.Repository: the record under id decoded, or nil.
StoreRepository(b, id) ==
  IF id \in DOMAIN b THEN Ptr(decodeRepository(b[id])) ELSE Nil

\* Store.Repositories: every record decoded, in key order, from the i-th
\* key on.
RECURSIVE repositoriesFrom(_, _, _)
repositoriesFrom(b, i, a) ==
  IF i > Len(AllKeys) THEN a
  ELSE IF AllKeys[i] \notin DOMAIN b THEN repositoriesFrom(b, i + 1, a)
  ELSE repositoriesFrom(b, i + 1, Append(a, decodeRepository(b[AllKeys[i]])))

Repositories(b) == repositoriesFrom(b, 1, << >>)

\* Store.saveRepository: Put under r.GetID().
saveRepository(b, r) ==
  [ k \in DOMAIN b \cup {r.ID} |-> IF k = r.ID THEN r ELSE b[k] ]

\* bolt's db.Update: the writes are committed iff fn returned nil.
Update(b, res) == IF res.err = NoErr THEN res.db ELSE b

\* ------------------------------------------------------ Store.AddMessage
\* Variant: the resolver is asked again for a repository not yet notified.
needsRemoteUntilNotified(r) == r = Nil \/ ~r[1].Notified

\* Variant: the resolver is asked on every call.
needsRemoteAlways(r) == TRUE

\* "If repository is not in local store then fetch it remotely."
needsRemote(r) == r = Nil

\* Variant: a reply of (nil, nil) is taken for an empty repository.
resolveCreatesMissing(id, reply) ==
  IF reply.err # NoErr THEN [ err |-> WrapRemote(reply.err), r |-> Nil ]
  ELSE IF reply.repo = Nil
    THEN [ err |-> NoErr, r |-> Ptr(encodeRepository(RemoteRepository(id, "", ""))) ]
  ELSE [ err |-> NoErr, r |-> Ptr(encodeRepository(reply.repo[1])) ]

\* Variant: the resolver's error is passed on as it came.
resolveUnwrapped(id, reply) ==
  IF reply.err # NoErr THEN [ err |-> reply.err, r |-> Nil ]
  ELSE IF reply.repo = Nil THEN [ err |-> ErrRepositoryNotFound, r |-> Nil ]
  ELSE [ err |-> NoErr, r |-> Ptr(encodeRepository(reply.repo[1])) ]

\* What the update function makes of the resolver's reply: an error to
\* return, or the repository converted to the internal format.
resolve(id, reply) ==
  IF reply.err # NoErr THEN [ err |-> WrapRemote(reply.err), r |-> Nil ]
  ELSE IF reply.repo = Nil THEN [ err |-> ErrRepositoryNotFound, r |-> Nil ]
  ELSE [ err |-> NoErr, r |-> Ptr(encodeRepository(reply.repo[1])) ]

\* Variant: the scan compares the whole message.
hasMessageText(r, m) ==
  \E i \in 1..Len(r.Messages) : r.Messages[i] = encodeMessage(m)

\* "Ensure message doesn't already exist": the scan compares IDs only.
hasMessage(r, m) == \E i \in 1..Len(r.Messages) : r.Messages[i].ID = m.ID

\* Variant: the newest message is put first.
prependMessage(r, m) == [ r EXCEPT !.Messages = << encodeMessage(m) >> \o @ ]

\* Variant: the record is rebuilt around the messages, the flag left out.
appendMessageUnflagged(r, m) ==
  [ r EXCEPT !.Messages = Append(@, encodeMessage(m)), !.Notified = FALSE ]

\* Variant: the message is appended to a copy that is dropped.
appendToCopy(r, m) == r

\* "Append message."
appendMessage(r, m) == [ r EXCEPT !.Messages = Append(@, encodeMessage(m)) ]

\* Variant: a message whose ID is stored replaces the stored one.
addOrReplace(b, r, m) ==
  IF hasMessage(r, m)
    THEN [ err |-> NoErr,
           db |-> saveRepository(b,
                    [ r EXCEPT !.Messages =
                        [ i \in 1..Len(r.Messages) |->
                            IF r.Messages[i].ID = m.ID THEN encodeMessage(m)
                            ELSE r.Messages[i] ] ]) ]
    ELSE [ err |-> NoErr, db |-> saveRepository(b, appendMessage(r, m)) ]

\* The update function from the dedup scan on, r in hand: the error it
\* returns and the bucket as the transaction has written it.
addToRepository(b, r, m) ==
  IF hasMessage(r, m) THEN [ err |-> errDuplicateMessage, db |-> b ]
  ELSE [ err |-> NoErr, db |-> saveRepository(b, appendMessage(r, m)) ]

\* Variant: the marker error reaches the caller.
surfaceDuplicate(err) == err

\* "ignore duplicates": what AddMessage returns for the transaction's error.
ignoreDuplicate(err) == IF err = errDuplicateMessage THEN NoErr ELSE err

\* ----------------------------------------------------- Store.MarkNotified
\* Variant: a missing repository is created with the flag set.
markNotifiedUpsert(b, id) ==
  LET r == repository(b, id) IN
  IF r = Nil
    THEN [ err |-> NoErr,
           db |-> saveRepository(b,
                    [ encodeRepository(RemoteRepository(id, "", ""))
                        EXCEPT !.Notified = TRUE ]) ]
    ELSE [ err |-> NoErr, db |-> saveRepository(b, [ r[1] EXCEPT !.Notified = TRUE ]) ]

\* Variant: the flag is set on a record built anew, the messages left out.
markNotifiedHeaderOnly(b, id) ==
  LET r == repository(b, id) IN
  IF r = Nil THEN [ err |-> ErrRepositoryNotFound, db |-> b ]
  ELSE [ err |-> NoErr,
         db |-> saveRepository(b, [ r[1] EXCEPT !.Notified = TRUE, !.Messages = << >> ]) ]

\* Variant: the record is saved with the flag set and no description.
markNotifiedBlank(b, id) ==
  LET r == repository(b, id) IN
  IF r = Nil THEN [ err |-> ErrRepositoryNotFound, db |-> b ]
  ELSE [ err |-> NoErr,
         db |-> saveRepository(b, [ r[1] EXCEPT !.Notified = TRUE, !.Description = "" ]) ]

\* Variant: the flag is flipped, not set.
markNotifiedToggle(b, id) ==
  LET r == repository(b, id) IN
  IF r = Nil THEN [ err |-> ErrRepositoryNotFound, db |-> b ]
  ELSE [ err |-> NoErr,
         db |-> saveRepository(b, [ r[1] EXCEPT !.Notified = ~r[1].Notified ]) ]

\* The update function: "Retrieve repository", "Update the notified flag",
\* "Perist repository".
markNotified(b, id) ==
  LET r == repository(b, id) IN
  IF r = Nil THEN [ err |-> ErrRepositoryNotFound, db |-> b ]
  ELSE [ err |-> NoErr, db |-> saveRepository(b, [ r[1] EXCEPT !.Notified = TRUE ]) ]

\* -------------------------------------------------- Store.TopRepositories
\* Variant: a repository with no language is passed over.
ignoredWithoutLanguage(r, cur) ==
  \/ r.Language = ""
  \/ r.Notified
  \/ cur # Nil /\ Len(r.Messages) <= Len(cur[1].Messages)

\* Variant: the notified flag is not looked at.
ignoredByCountOnly(r, cur) ==
  cur # Nil /\ Len(r.Messages) <= Len(cur[1].Messages)

\* Variant: a repository with as many messages replaces the candidate.
ignoredWhenFewer(r, cur) ==
  \/ r.Notified
  \/ cur # Nil /\ Len(r.Messages) < Len(cur[1].Messages)

\* "Ignore marked repositories or repositories that have a lower message
\* count": cur is m[lang], Nil when the language has no candidate yet.
ignored(r, cur) ==
  \/ r.Notified
  \/ cur # Nil /\ Len(r.Messages) <= Len(cur[1].Messages)

\* The cursor loop from the i-th key of the bucket on, m the map so far.
RECURSIVE topFrom(_, _, _)
topFrom(b, i, m) ==
  IF i > Len(AllKeys) THEN m
  ELSE IF AllKeys[i] \notin DOMAIN b THEN topFrom(b, i + 1, m)
  ELSE LET r == b[AllKeys[i]]
           lang == r.Language
           cur == IF lang \in DOMAIN m THEN Ptr(m[lang]) ELSE Nil
       IN IF ignored(r, cur) THEN topFrom(b, i + 1, m)
          ELSE topFrom(b, i + 1,
                 [ l \in DOMAIN m \cup {lang} |->
                     IF l = lang THEN decodeRepository(r) ELSE m[l] ])

TopRepositories(b) == topFrom(b, 1, [ l \in {} |-> Nil ])

\* ------------------------------------------------ the earlier store: DB
\* Accounts as configured: the second account tweets about go as the first
\* does, or about another language.
AccountLangs == { "go", "js" }
Usernames == { "a1", "a2" }
AccountConfigs ==
  { << [ Username |-> "a1", Language |-> "go" ],
       [ Username |-> "a2", Language |-> l ] >> : l \in AccountLangs }

\* The configured interval, in ticks of the clock.
Intervals == { 1, 2 }

\* scuttlebutt.Message and scuttlebutt.Repository of the earlier store.
DBMessages == [ ID : MsgIDs, Text : { "A" } ]
\* The repositories of the earlier store are a go and a js repository, put
\* with no message or with the first mention.
DBRepoIDs == { "github.com/a/go1", "github.com/b/js1" }
LanguageOf(id) == IF id = "github.com/b/js1" THEN "js" ELSE "go"
DBRepositories ==
  { [ ID |-> id, URL |-> "https://" \o id, Description |-> "",
      Language |-> LanguageOf(id), Messages |-> ms ] :
      id \in DBRepoIDs, ms \in { << >>, << [ ID |-> 1, Text |-> "A" ] >> } }

\* json.Marshal / json.Unmarshal of a Message, by the struct tags.
jsonMarshalMessage(m) == [ id |-> m.ID, text |-> m.Text ]
jsonUnmarshalMessage(v) == [ ID |-> v.id, Text |-> v.text ]

\* json.Marshal / json.Unmarshal of a Repository, by the struct tags.
jsonMarshalRepository(r) ==
  [ id |-> r.ID, url |-> r.URL, description |-> r.Description,
    language |-> r.Language,
    messages |-> [ i \in 1..Len(r.Messages) |-> jsonMarshalMessage(r.Messages[i]) ] ]
jsonUnmarshalRepository(v) ==
  [ ID |-> v.id, URL |-> v.url, Description |-> v.description,
    Language |-> v.language,
    Messages |-> [ i \in 1..Len(v.messages) |-> jsonUnmarshalMessage(v.messages[i]) ] ]

\* json.Marshal / json.Unmarshal of an AccountStatus.
jsonMarshalStatus(st) == [ notifyTime |-> st.NotifyTime ]
jsonUnmarshalStatus(v) == [ NotifyTime |-> v.notifyTime ]

\* time.Time's zero value is 0; the clock starts at 1.
IsZero(t) == t = 0

\* Tx.AccountStatus: the stored status, or the zero status when the bucket
\* holds nothing under the username.
AccountStatus(sb, username) ==
  IF username \in DOMAIN sb THEN jsonUnmarshalStatus(sb[username])
  ELSE [ NotifyTime |-> 0 ]

\* Tx.SetAccountStatus
SetAccountStatus(sb, username, st) ==
  [ u \in DOMAIN sb \cup {username} |->
      IF u = username THEN jsonMarshalStatus(st) ELSE sb[u] ]

\* Variant: an account is notifiable again once the interval has passed.
notifiableAtInterval(st, duration, t) ==
  IsZero(st.NotifyTime) \/ t - st.NotifyTime >= duration

\* status.NotifyTime.IsZero() || time.Now().Sub(status.NotifyTime) > duration
notifiable(st, duration, t) ==
  IsZero(st.NotifyTime) \/ t - st.NotifyTime > duration

\* The loop of Tx.NotifiableAccounts from the i-th account on, at time t.
RECURSIVE notifiableFrom(_, _, _, _, _, _)
notifiableFrom(sb, accs, i, duration, t, acc) ==
  IF i > Len(accs) THEN acc
  ELSE IF notifiable(AccountStatus(sb, accs[i].Username), duration, t)
    THEN notifiableFrom(sb, accs, i + 1, duration, t, Append(acc, accs[i]))
  ELSE notifiableFrom(sb, accs, i + 1, duration, t, acc)

\* Tx.NotifiableAccounts
NotifiableAccounts(sb, accs, duration, t) ==
  notifiableFrom(sb, accs, 1, duration, t, << >>)

\* Tx.Repository: nil when the bucket holds nothing under id.
Repository(rb, id) ==
  IF id \in DOMAIN rb THEN Ptr(jsonUnmarshalRepository(rb[id])) ELSE Nil

\* Variant: a record that is there is kept.
PutRepositoryIfAbsent(rb, r) ==
  [ k \in DOMAIN rb \cup {r.ID} |->
      IF k \in DOMAIN rb THEN rb[k] ELSE jsonMarshalRepository(r) ]

\* Tx.PutRepository: Put under r.ID.
PutRepository(rb, r) ==
  [ k \in DOMAIN rb \cup {r.ID} |->
      IF k = r.ID THEN jsonMarshalRepository(r) ELSE rb[k] ]

\* fmt.Errorf("repository not found: %s", repositoryID)
ErrNoRepository(id) == "repository not found: " \o id

\* Tx.AddMessage: no scan for the message ID.
TxAddMessage(rb, id, m) ==
  IF id \notin DOMAIN rb THEN [ err |-> ErrNoRepository(id), repositories |-> rb ]
  ELSE LET r == jsonUnmarshalRepository(rb[id])
           r2 == [ r EXCEPT !.Messages = Append(@, m) ]
       IN [ err |-> NoErr,
            repositories |->
              [ k \in DOMAIN rb |-> IF k = id THEN jsonMarshalRepository(r2) ELSE rb[k] ] ]

\* Tx.TopRepositoriesByLanguage over Tx.ForEachRepository, from the i-th key
\* on: keys on the blacklist are passed over.
RECURSIVE topByLanguageFrom(_, _, _, _)
topByLanguageFrom(rb, bl, i, m) ==
  IF i > Len(AllKeys) THEN m
  ELSE IF AllKeys[i] \notin DOMAIN rb \/ AllKeys[i] \in bl
    THEN topByLanguageFrom(rb, bl, i + 1, m)
  ELSE LET r == jsonUnmarshalRepository(rb[AllKeys[i]])
           current == IF r.Language \in DOMAIN m THEN Ptr(m[r.Language]) ELSE Nil
       IN IF current = Nil \/ Len(current[1].Messages) < Len(r.Messages)
            THEN topByLanguageFrom(rb, bl, i + 1,
                   [ l \in DOMAIN m \cup {r.Language} |->
                       IF l = r.Language THEN r ELSE m[l] ])
            ELSE topByLanguageFrom(rb, bl, i + 1, m)

TopRepositoriesByLanguage(rb, bl) ==
  topByLanguageFrom(rb, bl, 1, [ l \in {} |-> Nil ])

\* Tx.AddToBlacklist
AddToBlacklist(bl, id) == bl \cup {id}

\* Variant: the bucket is emptied.
RemoveFromBlacklistAll(bl, id) == {}

\* Tx.RemoveFromBlacklist
RemoveFromBlacklist(bl, id) == bl \ {id}

\* Tx.ForEachRepository from the i-th key on: the repositories fn is called
\* with, in order.
RECURSIVE forEachFrom(_, _, _, _)
forEachFrom(rb, bl, i, a) ==
  IF i > Len(AllKeys) THEN a
  ELSE IF AllKeys[i] \notin DOMAIN rb \/ AllKeys[i] \in bl
    THEN forEachFrom(rb, bl, i + 1, a)
  ELSE forEachFrom(rb, bl, i + 1, Append(a, jsonUnmarshalRepository(rb[AllKeys[i]])))

ForEachRepository(rb, bl) == forEachFrom(rb, bl, 1, << >>)

\* A send that succeeded, for the history.
Sent(account, id, t) == [ account |-> account.Username, repo |-> id, time |-> t ]

\* Variant: the repository is not put on the blacklist.
afterSendStatusOnly(tx, account, r, t) ==
  [ tx EXCEPT !.status = SetAccountStatus(@, account.Username, [ NotifyTime |-> t ]),
              !.sent = @ \cup { Sent(account, r.ID, t) } ]

\* The earlier loop after account.Notify returned no error: "Update notify
\* status", "Add repository to the blacklist", in the transaction tx.
afterSend(tx, account, r, t) ==
  [ tx EXCEPT !.status = SetAccountStatus(@, account.Username, [ NotifyTime |-> t ]),
              !.blacklist = AddToBlacklist(@, r.ID),
              !.sent = @ \cup { Sent(account, r.ID, t) } ]

\* "Notify each account that has an available repository", from the i-th
\* notifiable account on; ok holds the accounts whose Notify succeeds.
RECURSIVE notifyFrom(_, _, _, _, _, _)
notifyFrom(accs, i, top, ok, tx, t) ==
  IF i > Len(accs) THEN tx
  ELSE IF accs[i].Language \notin DOMAIN top THEN notifyFrom(accs, i + 1, top, ok, tx, t)
  ELSE IF accs[i].Username \notin ok THEN notifyFrom(accs, i + 1, top, ok, tx, t)
  ELSE notifyFrom(accs, i + 1, top, ok,
                  afterSend(tx, accs[i], top[accs[i].Language], t), t)

NoOut ==
  [ op |-> "none", r |-> Nil, old |-> Nil, id |-> "", err |-> NoErr, val |-> << >> ]

\* ----------------------------------------------------------------- calls
\* The store is open and empty, and no call has been made on it.
StoreInit ==
  /\ db = [ k \in {} |-> Nil ]
  /\ wtx = Nil
  /\ ret = NoRet
  /\ marked = {}
  /\ created = {}
  /\ calls = 0

\* DB is open and empty.
DBInit ==
  /\ repositories = [ k \in {} |-> Nil ]
  /\ blacklist = {}
  /\ status = [ u \in {} |-> Nil ]
  /\ out = NoOut

\* No notifier loop runs: no account is configured.
LoopOff ==
  /\ accounts = << >>
  /\ interval = 1
  /\ now = 1
  /\ sent = {}

\* scuttlebuttd's notifier has not started.
MainInit ==
  /\ lastTweetTime = [ u \in Usernames |-> 0 ]
  /\ timeline = [ u \in Usernames |-> 0 ]
  /\ tick = Nil

\* The goroutines of scuttlebuttd.
Goroutines == { "poller", "notifier" }

\* scuttlebuttd has not been run: NewMain leaves closing nil, and no
\* goroutine has been started.
DaemonOff ==
  /\ closing = "nil"
  /\ wg = 0
  /\ pc = [ g \in Goroutines \cup {"closer"} |-> "none" ]
  /\ sinceID = 0
  /\ batch = Nil
  /\ failed = {}

Init ==
  /\ StoreInit
  /\ DBInit
  /\ LoopOff
  /\ MainInit
  /\ rtx = Nil
  /\ DaemonOff

\* A caller makes its call: one more of the run's MaxCalls.
Call == calls < MaxCalls /\ calls' = calls + 1

\* AddMessage(m) returns err: ret takes the outcome.
Returned(m, err, local, remote) ==
  [ NoRet EXCEPT !.op = "AddMessage", !.m = Ptr(m), !.err = err,
                 !.local = local, !.remote = remote,
                 !.prev = IF ret.op = "AddMessage" /\ ret.m = Ptr(m)
                            THEN Ptr(ret.err) ELSE Nil ]

\* AddMessage(m) enters db.Update.  With the repository in the local store
\* the whole transaction runs here; otherwise the transaction, holding the
\* writer lock, calls RemoteStore.Repository and waits.
AddMessage(m) ==
  /\ Call
  /\ wtx = Nil
  /\ LET r == repository(db, m.RepositoryID) IN
     IF needsRemote(r)
       THEN /\ wtx' = Ptr(m)
            /\ UNCHANGED << db, ret, marked, created >>
       ELSE LET res == addToRepository(db, r[1], m) IN
            /\ db' = Update(db, res)
            /\ ret' = Returned(m, ignoreDuplicate(res.err), TRUE, "none")
            /\ UNCHANGED << wtx, marked, created >>
  /\ UNCHANGED notStore

\* Variant: the transaction runs to its end and the writer lock is kept.
RemoteReturnsHolding(reply) ==
  /\ wtx # Nil
  /\ reply \in RemoteReplies(wtx[1].RepositoryID)
  /\ LET m == wtx[1]
         rs == resolve(m.RepositoryID, reply)
         res == IF rs.err # NoErr THEN [ err |-> rs.err, db |-> db ]
                ELSE addToRepository(db, rs.r[1], m)
     IN /\ db' = Update(db, res)
        /\ wtx' = wtx
        /\ created' = IF rs.err = NoErr THEN created \cup {m} ELSE created
        /\ ret' = [ Returned(m, ignoreDuplicate(res.err),
                              m.RepositoryID \in DOMAIN db, reply.kind)
                       EXCEPT !.reply = Ptr(reply) ]
        /\ UNCHANGED << marked, calls >>
  /\ UNCHANGED notStore

\* RemoteStore.Repository returns inside the waiting transaction, which runs
\* to its end: commit or rollback, and the writer lock is released.
RemoteReturns(reply) ==
  /\ wtx # Nil
  /\ reply \in RemoteReplies(wtx[1].RepositoryID)
  /\ LET m == wtx[1]
         rs == resolve(m.RepositoryID, reply)
         res == IF rs.err # NoErr THEN [ err |-> rs.err, db |-> db ]
                ELSE addToRepository(db, rs.r[1], m)
     IN /\ db' = Update(db, res)
        /\ wtx' = Nil
        /\ created' = IF rs.err = NoErr THEN created \cup {m} ELSE created
        /\ ret' = [ Returned(m, ignoreDuplicate(res.err),
                              m.RepositoryID \in DOMAIN db, reply.kind)
                       EXCEPT !.reply = Ptr(reply) ]
        /\ UNCHANGED << marked, calls >>
  /\ UNCHANGED notStore

\* Variant: the update does not wait for the writer lock.
MarkNotifiedUnlocked(id) ==
  /\ Call
  /\ LET res == markNotified(db, id) IN
     /\ db' = Update(db, res)
     /\ marked' = IF res.err = NoErr THEN marked \cup {id} ELSE marked
     /\ ret' = [ NoRet EXCEPT !.op = "MarkNotified", !.id = id, !.err = res.err,
                              !.prev = IF ret.op = "MarkNotified" /\ ret.id = id
                                         THEN Ptr(ret.err) ELSE Nil ]
  /\ UNCHANGED << wtx, created >>
  /\ UNCHANGED notStore

\* MarkNotified(id): one db.Update with no outside call in it.
MarkNotified(id) ==
  /\ Call
  /\ wtx = Nil
  /\ LET res == markNotified(db, id) IN
     /\ db' = Update(db, res)
     /\ marked' = IF res.err = NoErr THEN marked \cup {id} ELSE marked
     /\ ret' = [ NoRet EXCEPT !.op = "MarkNotified", !.id = id, !.err = res.err,
                              !.prev = IF ret.op = "MarkNotified" /\ ret.id = id
                                         THEN Ptr(ret.err) ELSE Nil ]
  /\ UNCHANGED << wtx, created >>
  /\ UNCHANGED notStore

\* TopRepositories(): one db.View of the committed state.
CallTopRepositories ==
  /\ Call
  /\ ret' = [ NoRet EXCEPT !.op = "TopRepositories", !.val = TopRepositories(db) ]
  /\ UNCHANGED << db, wtx, marked, created >>
  /\ UNCHANGED notStore

Next ==
  \/ \E m \in Messages : AddMessage(m)
  \/ \E id \in RepoIDs : \E reply \in RemoteReplies(id) : RemoteReturns(reply)
  \/ \E id \in RepoIDs : MarkNotified(id)
  \/ CallTopRepositories

Spec == Init /\ [][Next]_vars

\* ------------------------------------------------- calls on the earlier DB
\* db.Update with tx.PutRepository(r) in it.
DBPutRepository(r) ==
  /\ Call
  /\ repositories' = PutRepository(repositories, r)
  /\ out' = [ NoOut EXCEPT !.op = "PutRepository", !.r = Ptr(r),
                           !.old = Repository(repositories, r.ID) ]
  /\ UNCHANGED << db, wtx, ret, marked, created >>
  /\ UNCHANGED << blacklist, status, loopVars, mainVars, rtx, daemonVars >>

\* db.Update with tx.AddMessage(id, m) in it.
DBAddMessage(id, m) ==
  /\ Call
  /\ LET res == TxAddMessage(repositories, id, m) IN
       /\ repositories' = res.repositories
       /\ out' = [ NoOut EXCEPT !.op = "AddMessage", !.id = id, !.err = res.err,
                                !.old = Repository(repositories, id) ]
  /\ UNCHANGED << db, wtx, ret, marked, created >>
  /\ UNCHANGED << blacklist, status, loopVars, mainVars, rtx, daemonVars >>

\* tx.NotifiableAccounts(accounts, interval) in a transaction of its own.
CallNotifiableAccounts ==
  /\ out' = [ NoOut EXCEPT !.op = "NotifiableAccounts",
                           !.val = NotifiableAccounts(status, accounts, interval, now) ]
  /\ UNCHANGED << storeVars, repositories, blacklist, status, loopVars, mainVars, rtx, daemonVars >>

\* One round of the earlier notifier loop: time.Sleep, then one db.Update
\* that the function always ends by returning nil.  ok holds the accounts
\* whose Notify succeeds in this round.
notify(ok) ==
  /\ now < MaxTime
  /\ now' = now + 1
  /\ LET ready == NotifiableAccounts(status, accounts, interval, now')
         top == TopRepositoriesByLanguage(repositories, blacklist)
         tx == notifyFrom(ready, 1, top, ok,
                          [ status |-> status, blacklist |-> blacklist, sent |-> sent ],
                          now')
     IN /\ status' = tx.status
        /\ blacklist' = tx.blacklist
        /\ sent' = tx.sent
        /\ out' = [ NoOut EXCEPT !.op = "notify", !.val = ready ]
  /\ UNCHANGED << storeVars, repositories, accounts, interval, mainVars, rtx, daemonVars >>

LoopInit ==
  /\ accounts \in AccountConfigs
  /\ interval \in Intervals
  /\ now = 1
  /\ sent = {}

\* db.Update with tx.AddToBlacklist(id) in it.
DBAddToBlacklist(id) ==
  /\ Call
  /\ blacklist' = AddToBlacklist(blacklist, id)
  /\ out' = [ NoOut EXCEPT !.op = "AddToBlacklist", !.id = id ]
  /\ UNCHANGED << db, wtx, ret, marked, created >>
  /\ UNCHANGED << repositories, status, loopVars, mainVars, rtx, daemonVars >>

\* db.Update with tx.RemoveFromBlacklist(id) in it; out.old tells whether
\* the ID was on the blacklist.
DBRemoveFromBlacklist(id) ==
  /\ Call
  /\ blacklist' = RemoveFromBlacklist(blacklist, id)
  /\ out' = [ NoOut EXCEPT !.op = "RemoveFromBlacklist", !.id = id,
                           !.old = IF id \in blacklist THEN Ptr(id) ELSE Nil ]
  /\ UNCHANGED << db, wtx, ret, marked, created >>
  /\ UNCHANGED << repositories, status, loopVars, mainVars, rtx, daemonVars >>

\* db.View with tx.TopRepositoriesByLanguage() in it.
CallTopRepositoriesByLanguage ==
  /\ Call
  /\ out' = [ NoOut EXCEPT !.op = "TopRepositoriesByLanguage",
                           !.val = TopRepositoriesByLanguage(repositories, blacklist) ]
  /\ UNCHANGED << db, wtx, ret, marked, created >>
  /\ UNCHANGED << repositories, blacklist, status, loopVars, mainVars, rtx, daemonVars >>

\* Callers of the earlier store and of its blacklist.
NextBlacklist ==
  \/ \E r \in DBRepositories : DBPutRepository(r)
  \/ \E id \in DBRepoIDs : DBAddToBlacklist(id)
  \/ \E id \in DBRepoIDs : DBRemoveFromBlacklist(id)
  \/ CallTopRepositoriesByLanguage

SpecBlacklist == Init /\ [][NextBlacklist]_vars

\* Callers of the earlier store, no notifier loop running.
NextDB ==
  \/ \E r \in DBRepositories : DBPutRepository(r)
  \/ \E id \in DBRepoIDs : \E m \in DBMessages : DBAddMessage(id, m)

SpecDB == Init /\ [][NextDB]_vars

\* The earlier program: the notifier loop, and repositories being put
\* while it runs.
InitLoop ==
  /\ StoreInit
  /\ DBInit
  /\ LoopInit
  /\ MainInit
  /\ rtx = Nil
  /\ DaemonOff

NextLoop ==
  \/ \E r \in DBRepositories : DBPutRepository(r)
  \/ CallNotifiableAccounts
  \/ \E ok \in SUBSET Usernames : notify(ok)

SpecLoop == InitLoop /\ [][NextLoop]_vars

\* ------------------------------------------------ scuttlebuttd's notifier
\* Main.NotifyInterval: what NewMain sets, or a longer interval set on the
\* field before Run.
NotifyIntervals == { DefaultNotifyInterval, 2 * DefaultNotifyInterval }

\* What the Twitter client can do with a request: fail, or answer.
ClientReplies == { "error", "ok" }

\* Variant: the time is retrieved with a request on every call.
LastTweetTimeRetrieved(cache, latest, reply) ==
  IF reply = "error" THEN [ err |-> "send request: marker", t |-> 0 ]
  ELSE [ err |-> NoErr, t |-> latest ]

\* Notifier.LastTweetTime: the cached time when there is one; otherwise the
\* time of the latest tweet on the account's timeline, the zero time when
\* the timeline is empty, or the client's error.
LastTweetTime(cache, latest, reply) ==
  IF ~IsZero(cache) THEN [ err |-> NoErr, t |-> cache ]
  ELSE IF reply = "error" THEN [ err |-> "send request: marker", t |-> 0 ]
  ELSE [ err |-> NoErr, t |-> latest ]

\* Variant: an account with no last tweet counts as within the interval.
withinIntervalOfZero(t, clock) == IsZero(t) \/ clock - t < DefaultNotifyInterval

\* "Skip notifier if last tweet time is within interval": the comparison is
\* with DefaultNotifyInterval.
withinInterval(t, clock) == ~IsZero(t) /\ clock - t < DefaultNotifyInterval

\* Variant: the repository is not marked.
afterNotifyForget(b, id) == [ err |-> NoErr, db |-> b ]

\* "Mark repository as notified": Store.MarkNotified(r.ID), an error of
\* which is logged.
afterNotify(b, id) == markNotified(b, id)

\* The store a run of scuttlebuttd finds on disk: an earlier run has stored
\* the first mention of the first repository.
StoreAtStart ==
  [ k \in { AllKeys[1] } |->
      [ encodeRepository(RemoteRepository(k, "go", "lorem ipsum"))
          EXCEPT !.Messages = << [ ID |-> 1, Text |-> "A" ] >> ] ]

\* The mentions the poller delivers: each with one text.
Polled == { m \in Messages : m.Text = "A" }

\* Main.poll, "Save messages to store": Store.AddMessage(m) enters
\* db.Update, as in AddMessage above.  poll tells ErrRepositoryNotFound from
\* other errors and keeps nothing of the result.
MainPoll(m) ==
  /\ calls < MaxPolled
  /\ calls' = calls + 1
  /\ wtx = Nil
  /\ LET r == repository(db, m.RepositoryID) IN
     IF needsRemote(r)
       THEN /\ wtx' = Ptr(m)
            /\ UNCHANGED db
       ELSE /\ db' = Update(db, addToRepository(db, r[1], m))
            /\ UNCHANGED wtx
  /\ UNCHANGED << ret, marked, created, notStore >>

\* RemoteStore.Repository returns inside the poller's waiting transaction,
\* as in RemoteReturns above.
MainPollResolved(reply) ==
  /\ wtx # Nil
  /\ reply \in RemoteReplies(wtx[1].RepositoryID)
  /\ LET m == wtx[1]
         rs == resolve(m.RepositoryID, reply)
         res == IF rs.err # NoErr THEN [ err |-> rs.err, db |-> db ]
                ELSE addToRepository(db, rs.r[1], m)
     IN /\ db' = Update(db, res)
        /\ wtx' = Nil
        /\ created' = IF rs.err = NoErr THEN created \cup {m} ELSE created
  /\ UNCHANGED << ret, marked, calls, notStore >>

\* Variant: the top repositories are those of the store as it was found.
MainNotifyStale ==
  /\ tick = Nil
  /\ tick' = Ptr([ repos |-> TopRepositories(StoreAtStart), i |-> 1 ])
  /\ UNCHANGED << storeVars, dbVars, loopVars, lastTweetTime, timeline, rtx, daemonVars >>

\* Main.notify begins: "Retrieve top repositories by language".
MainNotify ==
  /\ tick = Nil
  /\ tick' = Ptr([ repos |-> TopRepositories(db), i |-> 1 ])
  /\ UNCHANGED << storeVars, dbVars, loopVars, lastTweetTime, timeline, rtx, daemonVars >>

\* Variant: the repository is marked before the request is sent.
MainNotifyEachMarking(reply, send) ==
  /\ tick # Nil
  /\ tick[1].i <= Len(accounts)
  /\ wtx = Nil
  /\ LET a == accounts[tick[1].i]
         repos == tick[1].repos
         last == LastTweetTime(lastTweetTime[a.Username], timeline[a.Username], reply)
     IN /\ tick' = Ptr([ tick[1] EXCEPT !.i = @ + 1 ])
        /\ IF \/ last.err # NoErr
              \/ withinInterval(last.t, now)
              \/ a.Language \notin DOMAIN repos
             THEN UNCHANGED << db, marked, lastTweetTime, timeline, sent >>
             ELSE LET r == repos[a.Language]
                      res == afterNotify(db, r.ID)
                  IN /\ db' = Update(db, res)
                     /\ marked' = IF res.err = NoErr THEN marked \cup {r.ID} ELSE marked
                     /\ IF send = "error"
                          THEN UNCHANGED << lastTweetTime, timeline, sent >>
                          ELSE /\ lastTweetTime' = [ lastTweetTime EXCEPT ![a.Username] = now ]
                               /\ timeline' = [ timeline EXCEPT ![a.Username] = now ]
                               /\ sent' = sent \cup { Sent(a, r.ID, now) }
  /\ UNCHANGED << wtx, ret, created, calls, dbVars, accounts, interval, now, rtx, daemonVars >>

\* Variant: the cache of the last tweet time is set when the request is
\* made, whatever comes back.
MainNotifyEachCaching(reply, send) ==
  /\ tick # Nil
  /\ tick[1].i <= Len(accounts)
  /\ wtx = Nil
  /\ LET a == accounts[tick[1].i]
         repos == tick[1].repos
         last == LastTweetTime(lastTweetTime[a.Username], timeline[a.Username], reply)
     IN /\ tick' = Ptr([ tick[1] EXCEPT !.i = @ + 1 ])
        /\ IF \/ last.err # NoErr
              \/ withinInterval(last.t, now)
              \/ a.Language \notin DOMAIN repos
             THEN UNCHANGED << db, marked, lastTweetTime, timeline, sent >>
             ELSE IF send = "error"
               THEN /\ lastTweetTime' = [ lastTweetTime EXCEPT ![a.Username] = now ]
                    /\ UNCHANGED << db, marked, timeline, sent >>
             ELSE LET r == repos[a.Language]
                      res == afterNotify(db, r.ID)
                  IN /\ lastTweetTime' = [ lastTweetTime EXCEPT ![a.Username] = now ]
                     /\ timeline' = [ timeline EXCEPT ![a.Username] = now ]
                     /\ sent' = sent \cup { Sent(a, r.ID, now) }
                     /\ db' = Update(db, res)
                     /\ marked' = IF res.err = NoErr THEN marked \cup {r.ID} ELSE marked
  /\ UNCHANGED << wtx, ret, created, calls, dbVars, accounts, interval, now, rtx, daemonVars >>

\* Main.notify, one round of "Iterate over each account": the notifier of
\* the i-th account, from LastTweetTime to MarkNotified.  MarkNotified
\* waits for the writer lock.
MainNotifyEach(reply, send) ==
  /\ tick # Nil
  /\ tick[1].i <= Len(accounts)
  /\ wtx = Nil
  /\ LET a == accounts[tick[1].i]
         repos == tick[1].repos
         last == LastTweetTime(lastTweetTime[a.Username], timeline[a.Username], reply)
     IN /\ tick' = Ptr([ tick[1] EXCEPT !.i = @ + 1 ])
        /\ IF \/ last.err # NoErr
              \/ withinInterval(last.t, now)
              \/ a.Language \notin DOMAIN repos
              \/ send = "error"
             THEN UNCHANGED << db, marked, lastTweetTime, timeline, sent >>
             ELSE LET r == repos[a.Language]
                      res == afterNotify(db, r.ID)
                  IN /\ lastTweetTime' = [ lastTweetTime EXCEPT ![a.Username] = now ]
                     /\ timeline' = [ timeline EXCEPT ![a.Username] = now ]
                     /\ sent' = sent \cup { Sent(a, r.ID, now) }
                     /\ db' = Update(db, res)
                     /\ marked' = IF res.err = NoErr THEN marked \cup {r.ID} ELSE marked
  /\ UNCHANGED << wtx, ret, created, calls, dbVars, accounts, interval, now, rtx, daemonVars >>

\* Main.notify has returned: runNotifier waits for NotifyCheckInterval.
MainWait ==
  /\ tick # Nil
  /\ tick[1].i > Len(accounts)
  /\ now < DefaultNotifyInterval + MaxOver
  /\ now' = now + DefaultNotifyCheckInterval
  /\ tick' = Nil
  /\ UNCHANGED << storeVars, dbVars, accounts, interval, sent, lastTweetTime, timeline, rtx, daemonVars >>

\* scuttlebuttd starts on the store of an earlier run.
InitNotifier ==
  /\ db = StoreAtStart
  /\ wtx = Nil
  /\ ret = NoRet
  /\ marked = {}
  /\ created = {}
  /\ calls = 0
  /\ DBInit
  /\ accounts \in AccountConfigs
  /\ interval \in NotifyIntervals
  /\ now = 1
  /\ sent = {}
  /\ MainInit
  /\ rtx = Nil
  /\ DaemonOff

\* The poller's calls on the store, and the notifier.
NextNotifier ==
  \/ \E m \in Polled : MainPoll(m)
  \/ \E id \in RepoIDs : \E reply \in RemoteReplies(id) : MainPollResolved(reply)
  \/ MainNotify
  \/ \E reply \in ClientReplies : \E send \in ClientReplies : MainNotifyEach(reply, send)
  \/ MainWait

SpecNotifier == InitNotifier /\ [][NextNotifier]_vars

\* The notifier loop with a Twitter client that answers every request, and
\* the poller beside it.  runNotifier's goroutine is scheduled again and
\* again; nothing makes the poller poll, nor the resolver answer.
NotifierSteps ==
  \/ MainNotify
  \/ MainNotifyEach("ok", "ok")
  \/ MainWait

PollerSteps ==
  \/ \E m \in Polled : MainPoll(m)
  \/ \E id \in RepoIDs : \E reply \in RemoteReplies(id) : MainPollResolved(reply)

NextProgress == NotifierSteps \/ PollerSteps

SpecProgress == InitNotifier /\ [][NextProgress]_vars /\ WF_vars(NotifierSteps)

\* ------------------------------------------- a read of Store step by step
\* The calls that iterate the bucket in one db.View.
ReadOps == { "Repositories", "TopRepositories" }

\* Variant: the cursor reads the bucket as last committed.
txBucketLive(began, committed) == committed

\* db.View: the transaction's bucket is the bucket as it was committed when
\* the transaction began, whatever is committed while it runs.
txBucket(began, committed) == began

\* The body of the cursor loop of TopRepositories at the i-th key, m the map
\* so far.
topStep(b, i, m) ==
  IF AllKeys[i] \notin DOMAIN b THEN m
  ELSE LET r == b[AllKeys[i]]
           lang == r.Language
           cur == IF lang \in DOMAIN m THEN Ptr(m[lang]) ELSE Nil
       IN IF ignored(r, cur) THEN m
          ELSE [ l \in DOMAIN m \cup {lang} |->
                   IF l = lang THEN decodeRepository(r) ELSE m[l] ]

\* The body of the cursor loop of Repositories at the i-th key.
repositoriesStep(b, i, a) ==
  IF AllKeys[i] \notin DOMAIN b THEN a
  ELSE Append(a, decodeRepository(b[AllKeys[i]]))

\* Repositories() or TopRepositories() enters db.View: the read transaction
\* begins and the cursor is at the first key.
BeginRead(op) ==
  /\ Call
  /\ rtx = Nil
  /\ rtx' = Ptr([ op |-> op, began |-> db, i |-> 1, val |-> << >> ])
  /\ UNCHANGED << db, wtx, ret, marked, created >>
  /\ UNCHANGED << dbVars, loopVars, mainVars, daemonVars >>

\* One turn of the cursor loop.
ReadStep ==
  /\ rtx # Nil
  /\ rtx[1].i <= Len(AllKeys)
  /\ LET b == txBucket(rtx[1].began, db) IN
     rtx' = Ptr([ rtx[1] EXCEPT
                    !.i = @ + 1,
                    !.val = IF rtx[1].op = "TopRepositories"
                              THEN topStep(b, rtx[1].i, @)
                              ELSE repositoriesStep(b, rtx[1].i, @) ])
  /\ UNCHANGED << storeVars, dbVars, loopVars, mainVars, daemonVars >>

\* The cursor is past the last key: the transaction ends and the call
\* returns what it gathered.
EndRead ==
  /\ rtx # Nil
  /\ rtx[1].i > Len(AllKeys)
  /\ ret' = [ NoRet EXCEPT !.op = rtx[1].op, !.val = rtx[1].val ]
  /\ rtx' = Nil
  /\ UNCHANGED << db, wtx, marked, created, calls >>
  /\ UNCHANGED << dbVars, loopVars, mainVars, daemonVars >>

\* Readers and writers of one Store side by side, MaxBeside calls in all.
NextSnapshot ==
  \/ \E m \in Polled : calls < MaxBeside /\ AddMessage(m)
  \/ \E id \in RepoIDs : \E reply \in RemoteReplies(id) : RemoteReturns(reply)
  \/ \E id \in RepoIDs : calls < MaxBeside /\ MarkNotified(id)
  \/ \E op \in ReadOps : calls < MaxBeside /\ BeginRead(op)
  \/ ReadStep
  \/ EndRead

SpecSnapshot == Init /\ [][NextSnapshot]_vars

\* ------------------------------------ scuttlebuttd: Run, runPoller, Close
\* The tweets that mention a repository, as Twitter holds them: tweet i
\* mentions the repository of the i-th key, taken round.
Tweet(i) ==
  [ ID |-> i, Text |-> "A", RepositoryID |-> AllKeys[((i - 1) % MaxRepos) + 1] ]

\* The IDs of the tweets a search with since_id finds.
Found(since) == { i \in MsgIDs : i > since }

\* Poller.Poll(sinceID): an error, or the tweets found as messages, in the
\* order Twitter lists them, which Poll keeps.
PollReplies(since) ==
  { [ err |-> "send request", messages |-> << >> ] }
    \cup { [ err |-> NoErr, messages |-> [ k \in 1..Len(o) |-> Tweet(o[k]) ] ] :
            o \in { q \in [ 1..Cardinality(Found(since)) -> Found(since) ] :
                      \A a, b \in DOMAIN q : a # b => q[a] # q[b] } }

\* Variant: sinceID is the ID of the message gone through last.
savedLast(since, id, err) ==
  IF err # NoErr /\ err # ErrRepositoryNotFound
    THEN [ stop |-> TRUE, sinceID |-> since ]
    ELSE [ stop |-> FALSE, sinceID |-> id ]

\* Variant: poll returns on every error of AddMessage.
savedOrReturned(since, id, err) ==
  IF err # NoErr
    THEN [ stop |-> TRUE, sinceID |-> since ]
    ELSE [ stop |-> FALSE, sinceID |-> IF id > since THEN id ELSE since ]

\* Variant: the highest ID is kept whatever AddMessage returned.
savedAlways(since, id, err) ==
  [ stop |-> err # NoErr /\ err # ErrRepositoryNotFound,
    sinceID |-> IF id > since THEN id ELSE since ]

\* Main.poll, one turn of "Save messages to store" once AddMessage has
\* returned err: whether poll returns the error, and the sinceID it leaves.
saved(since, id, err) ==
  IF err # NoErr /\ err # ErrRepositoryNotFound
    THEN [ stop |-> TRUE, sinceID |-> since ]
    ELSE [ stop |-> FALSE, sinceID |-> IF id > since THEN id ELSE since ]

\* close(ch): a nil or a closed channel makes it panic.
closeChan(ch) ==
  IF ch = "open" THEN [ ch |-> "closed", panic |-> FALSE ]
  ELSE [ ch |-> ch, panic |-> TRUE ]

\* What a select on time.After and on ch can take: a receive from a nil
\* channel never proceeds, a receive from a closed channel does.
selectReady(ch) == {"timer"} \cup (IF ch = "closed" THEN {"closing"} ELSE {})

\* Main.Run: "Create a poller & notify monitor".
MainRun ==
  /\ \A g \in Goroutines : pc[g] = "none"
  /\ wg' = wg + 2
  /\ pc' = [ pc EXCEPT !["poller"] = "poll", !["notifier"] = "notify" ]
  /\ UNCHANGED << storeVars, dbVars, loopVars, mainVars, rtx, closing, pollVars >>

\* runPoller calls poll, which calls Poller.Poll(sinceID).
runPollerPoll(reply) ==
  /\ pc["poller"] = "poll"
  /\ batch = Nil
  /\ reply \in PollReplies(sinceID)
  /\ IF reply.err # NoErr \/ reply.messages = << >>
       THEN /\ pc' = [ pc EXCEPT !["poller"] = "wait" ]
            /\ UNCHANGED batch
       ELSE /\ batch' = Ptr(reply.messages)
            /\ UNCHANGED pc
  /\ UNCHANGED << storeVars, dbVars, loopVars, mainVars, rtx, closing, wg, sinceID, failed >>

\* Main.poll, one turn of "Save messages to store": Store.AddMessage on the
\* next message, the resolver's answer taken inside it when the repository
\* is not in the store, then the error check and "Update the highest since
\* id".  An error ends poll, which runPoller logs.
runPollerSave(reply) ==
  /\ pc["poller"] = "poll"
  /\ batch # Nil
  /\ wtx = Nil
  /\ LET m == Head(batch[1])
         r == repository(db, m.RepositoryID)
         rs == resolve(m.RepositoryID, reply)
         res == IF ~needsRemote(r) THEN addToRepository(db, r[1], m)
                ELSE IF rs.err # NoErr THEN [ err |-> rs.err, db |-> db ]
                ELSE addToRepository(db, rs.r[1], m)
         sv == saved(sinceID, m.ID, ignoreDuplicate(res.err))
         last == sv.stop \/ Len(batch[1]) = 1
     IN /\ reply \in RemoteReplies(m.RepositoryID)
        /\ db' = Update(db, res)
        /\ ret' = [ NoRet EXCEPT !.op = "AddMessage", !.m = Ptr(m),
                                 !.err = ignoreDuplicate(res.err) ]
        /\ created' = IF needsRemote(r) /\ rs.err = NoErr THEN created \cup {m}
                       ELSE created
        /\ sinceID' = sv.sinceID
        /\ failed' = IF sv.stop THEN failed \cup {m.ID} ELSE failed \ {m.ID}
        /\ batch' = IF last THEN Nil ELSE Ptr(Tail(batch[1]))
        /\ pc' = [ pc EXCEPT !["poller"] = IF last THEN "wait" ELSE "poll" ]
  /\ UNCHANGED << wtx, marked, calls, dbVars, loopVars, mainVars, rtx, closing, wg >>

\* A goroutine returns: the deferred wg.Done, which lets a Close waiting in
\* wg.Wait return when the counter reaches zero.
returned(g) ==
  [ pc EXCEPT ![g] = "done",
              !["closer"] = IF wg = 1 /\ @ = "waiting" THEN "returned" ELSE @ ]

\* runPoller, "Wait for next interval or for shutdown signal".
runPollerSelect(ch) ==
  /\ pc["poller"] = "wait"
  /\ ch \in selectReady(closing)
  /\ IF ch = "closing"
       THEN pc' = returned("poller") /\ wg' = wg - 1
       ELSE pc' = [ pc EXCEPT !["poller"] = "poll" ] /\ UNCHANGED wg
  /\ UNCHANGED << storeVars, dbVars, loopVars, mainVars, rtx, closing, pollVars >>

\* runNotifier calls notify.
runNotifierNotify ==
  /\ pc["notifier"] = "notify"
  /\ MainNotify

\* runNotifier, notify having gone through the accounts: "Wait for next
\* interval or for shutdown signal".
runNotifierSelect(ch) ==
  /\ pc["notifier"] = "notify"
  /\ tick # Nil
  /\ tick[1].i > Len(accounts)
  /\ ch \in selectReady(closing)
  /\ tick' = Nil
  /\ IF ch = "closing"
       THEN pc' = returned("notifier") /\ wg' = wg - 1
       ELSE UNCHANGED << pc, wg >>
  /\ UNCHANGED << storeVars, dbVars, loopVars, lastTweetTime, timeline, rtx, closing, pollVars >>

\* Main.Close on the running program: close(m.closing), then m.wg.Wait().
\* A panic the caller does not recover from ends the process and the
\* goroutines with it.
MainClose(recovered) ==
  /\ pc["closer"] = "none"
  /\ \A g \in Goroutines : pc[g] # "none"
  /\ LET c == closeChan(closing) IN
     /\ closing' = c.ch
     /\ pc' = IF c.panic
                THEN [ g \in DOMAIN pc |->
                         IF g = "closer" THEN "panicked"
                         ELSE IF recovered THEN pc[g] ELSE "killed" ]
                ELSE [ pc EXCEPT !["closer"] = IF wg = 0 THEN "returned" ELSE "waiting" ]
  /\ UNCHANGED << storeVars, dbVars, loopVars, mainVars, rtx, wg, pollVars >>

\* scuttlebuttd from Run on, with no account configured.
NextMain ==
  \/ MainRun
  \/ \E reply \in PollReplies(sinceID) : runPollerPoll(reply)
  \/ \E id \in RepoIDs : \E reply \in RemoteReplies(id) : runPollerSave(reply)
  \/ \E ch \in {"timer", "closing"} : runPollerSelect(ch)
  \/ runNotifierNotify
  \/ \E ch \in {"timer", "closing"} : runNotifierSelect(ch)
  \/ \E recovered \in BOOLEAN : MainClose(recovered)

SpecMain == Init /\ [][NextMain]_vars
\* ---------------------------------------- reads of a store found on disk
\* A value in the bucket that is not the encoding of a repository.
Undecodable == [ raw |-> "garbage" ]

\* The error of proto.Unmarshal.
errUnmarshal == "proto: cannot unmarshal"

\* proto.Unmarshal(v, &r)
protoUnmarshal(v) ==
  IF "raw" \in DOMAIN v THEN [ err |-> errUnmarshal, pb |-> Nil ]
  ELSE [ err |-> NoErr, pb |-> Ptr(v) ]

\* Variant: a value that does not decode is passed over.
cursorTurnSkipping(op, b, i, acc) ==
  IF AllKeys[i] \notin DOMAIN b THEN [ err |-> NoErr, val |-> acc ]
  ELSE IF protoUnmarshal(b[AllKeys[i]]).err # NoErr THEN [ err |-> NoErr, val |-> acc ]
  ELSE [ err |-> NoErr,
         val |-> IF op = "TopRepositories" THEN topStep(b, i, acc)
                 ELSE repositoriesStep(b, i, acc) ]

\* One turn of the cursor loop of Repositories or TopRepositories at the
\* i-th key: the value is decoded, and an error of that is returned from
\* the view function.
cursorTurn(op, b, i, acc) ==
  IF AllKeys[i] \notin DOMAIN b THEN [ err |-> NoErr, val |-> acc ]
  ELSE IF protoUnmarshal(b[AllKeys[i]]).err # NoErr
    THEN [ err |-> protoUnmarshal(b[AllKeys[i]]).err, val |-> acc ]
  ELSE [ err |-> NoErr,
         val |-> IF op = "TopRepositories" THEN topStep(b, i, acc)
                 ELSE repositoriesStep(b, i, acc) ]

\* Repositories() or TopRepositories() from the i-th key on: the error
\* db.View returns and the named result as it stands then.
RECURSIVE viewFrom(_, _, _, _)
viewFrom(op, b, i, acc) ==
  IF i > Len(AllKeys) THEN [ err |-> NoErr, val |-> acc ]
  ELSE LET t == cursorTurn(op, b, i, acc) IN
       IF t.err # NoErr THEN t ELSE viewFrom(op, b, i + 1, t.val)

\* What one key of a store found on disk can hold.
OnDiskValues ==
  { Undecodable }
    \cup { [ encodeRepository(RemoteRepository("", l, "")) EXCEPT
               !.Notified = n, !.Messages = ms ] :
             l \in Langs, n \in BOOLEAN,
             ms \in { << >>, << [ ID |-> 1, Text |-> "A" ] >> } }

\* The stores a run can find on disk: under each key nothing, a repository
\* with that ID, or a value that does not decode.
OnDisk ==
  { b \in UNION { [ K -> OnDiskValues ] : K \in SUBSET RepoIDs } :
      \A k \in DOMAIN b : "raw" \in DOMAIN b[k] \/ b[k].ID = "" }

\* The records of b with their IDs filled in from their keys.
keyed(b) ==
  [ k \in DOMAIN b |->
      IF "raw" \in DOMAIN b[k] THEN b[k] ELSE [ b[k] EXCEPT !.ID = k ] ]

\* Repositories() or TopRepositories() on the store as found.
CallRead(op) ==
  /\ ret.op # op
  /\ LET v == viewFrom(op, db, 1, << >>) IN
     ret' = [ NoRet EXCEPT !.op = op, !.err = v.err, !.val = v.val ]
  /\ UNCHANGED << db, wtx, marked, created, calls >>
  /\ UNCHANGED notStore

InitOnDisk ==
  /\ db \in { keyed(b) : b \in OnDisk }
  /\ wtx = Nil
  /\ ret = NoRet
  /\ marked = {}
  /\ created = {}
  /\ calls = 0
  /\ DBInit
  /\ LoopOff
  /\ MainInit
  /\ rtx = Nil
  /\ DaemonOff

NextOnDisk == \E op \in ReadOps : CallRead(op)

SpecOnDisk == InitOnDisk /\ [][NextOnDisk]_vars

\* ------------------------------------------- AddMessage on any argument
\* Messages as a caller can hand them in: the message ID zero or not, the
\* repository ID of three segments or not.
HandedIn ==
  [ ID : 0..MaxMsgID, Text : { "A" }, RepositoryID : { AllKeys[1], MalformedID } ]

NextArgs ==
  \/ \E m \in HandedIn : calls < MaxBeside /\ AddMessage(m)
  \/ \E m \in HandedIn : \E reply \in RemoteReplies(m.RepositoryID) : RemoteReturns(reply)
  \/ \E id \in RepoIDs : calls < MaxBeside /\ MarkNotified(id)

SpecArgs == Init /\ [][NextArgs]_vars

\* ------------------------------------------- the store and its resolver
\* The poller's and the notifier's calls on the store: a call that can be
\* made is made.
CallerSteps ==
  \/ \E m \in Polled : calls < MaxWaiting /\ AddMessage(m)
  \/ \E id \in RepoIDs : calls < MaxWaiting /\ MarkNotified(id)

\* The resolver answers the call it was handed, when it answers.
ResolverSteps ==
  \E id \in RepoIDs : \E reply \in RemoteReplies(id) : RemoteReturns(reply)

NextWaiting ==
  \/ CallerSteps
  \/ ResolverSteps

\* The callers are scheduled; nothing in AddMessage or in github.Store makes
\* the resolver's answer arrive.
SpecWaiting == Init /\ [][NextWaiting]_vars /\ WF_vars(CallerSteps)

\* ============================================================== properties
\* The IDs of the messages stored under id, in order.
StoredIDs(id) ==
  IF id \in DOMAIN db
    THEN [ i \in 1..Len(db[id].Messages) |-> db[id].Messages[i].ID ]
    ELSE << >>

\* How many stored messages of id carry the message ID mid.
CountID(id, mid) ==
  Cardinality({ i \in 1..Len(StoredIDs(id)) : StoredIDs(id)[i] = mid })

\* The position of a key in the bucket's order.
KeyIndex(id) == CHOOSE i \in 1..Len(AllKeys) : AllKeys[i] = id

\* The latest call was the second of two AddMessage calls in a row with the
\* same repository ID, message ID and text.
CalledTwice == ret.op = "AddMessage" /\ ret.prev # Nil

\* C1 as stated: two AddMessage calls with the same (r, m) and identical
\* content both return no error and leave exactly one stored message with ID
\* m under r.
C1_AsStated ==
  CalledTwice =>
    /\ ret.prev = Ptr(NoErr)
    /\ ret.err = NoErr
    /\ CountID(ret.m[1].RepositoryID, ret.m[1].ID) = 1

\* C1, amended: when the first of two AddMessage calls with the same (r, m)
\* and identical content returns no error, the second returns no error too
\* and exactly one message with ID m is stored under r.
C1_Idempotent ==
  (CalledTwice /\ ret.prev = Ptr(NoErr)) =>
    /\ ret.err = NoErr
    /\ CountID(ret.m[1].RepositoryID, ret.m[1].ID) = 1

C1_Witness ==
  /\ CalledTwice
  /\ ret.prev = Ptr(NoErr)
  /\ ret.err = NoErr
  /\ CountID(ret.m[1].RepositoryID, ret.m[1].ID) = 1

\* C2: in every reachable state no stored repository holds two messages with
\* the same message ID.
C2_UniqueMessageIDs ==
  \A id \in DOMAIN db :
    \A i, j \in 1..Len(StoredIDs(id)) :
      StoredIDs(id)[i] = StoredIDs(id)[j] => i = j

\* A mention was delivered again, with another text, to a repository that
\* holds two messages and has been marked notified.
C2_Witness ==
  /\ ret.op = "AddMessage"
  /\ ret.err = NoErr
  /\ LET m == ret.m[1] IN
       /\ m.RepositoryID \in DOMAIN db
       /\ m.RepositoryID \in marked
       /\ Len(StoredIDs(m.RepositoryID)) = 2
       /\ CountID(m.RepositoryID, m.ID) = 1
       /\ \A i \in 1..2 : db[m.RepositoryID].Messages[i] # encodeMessage(m)

\* C3: a repository for which MarkNotified has succeeded is the value of no
\* language in the result of TopRepositories, in the state of any later call.
C3_NotifiedNeverTop ==
  \A id \in marked :
    /\ \A l \in DOMAIN TopRepositories(db) : TopRepositories(db)[l].ID # id
    /\ ret.op = "TopRepositories" =>
         \A l \in DOMAIN ret.val : ret.val[l].ID # id

\* A marked repository took another message, holds more messages than the
\* repository TopRepositories returns for its language, and is not returned.
C3_Witness ==
  /\ ret.op = "AddMessage"
  /\ ret.err = NoErr
  /\ LET id == ret.m[1].RepositoryID IN
       /\ id \in marked
       /\ Len(StoredIDs(id)) = 2
       /\ db[id].Messages[2] = encodeMessage(ret.m[1])
       /\ db[id].Language \in DOMAIN TopRepositories(db)
       /\ Len(TopRepositories(db)[db[id].Language].Messages) = 1

\* The repositories TopRepositories may return for language l.
Eligible(l) ==
  { id \in DOMAIN db : db[id].Language = l /\ ~db[id].Notified }

\* Of the eligible repositories of l, the first in key order among those with
\* the most messages.
Best(l) ==
  CHOOSE id \in Eligible(l) :
    \A other \in Eligible(l) :
      \/ Len(db[id].Messages) > Len(db[other].Messages)
      \/ /\ Len(db[id].Messages) = Len(db[other].Messages)
         /\ KeyIndex(id) <= KeyIndex(other)

\* C4: for every language with an eligible repository, TopRepositories
\* returns the eligible repository with the most messages, and of several
\* with the most messages the first in key order.
C4_TopIsBest ==
  \A l \in Langs :
    Eligible(l) # {} =>
      /\ l \in DOMAIN TopRepositories(db)
      /\ TopRepositories(db)[l] = decodeRepository(db[Best(l)])

\* TopRepositories returned the first of two eligible repositories of one
\* language that hold equally many messages.
C4_Witness ==
  /\ ret.op = "TopRepositories"
  /\ \E l \in DOMAIN ret.val :
       \E id, other \in Eligible(l) :
         /\ KeyIndex(id) < KeyIndex(other)
         /\ Len(db[id].Messages) = Len(db[other].Messages)
         /\ ret.val[l].ID = id

\* C5: AddMessage on a repository that is in the local store does not call
\* the resolver: no transaction waits on it, and the call returns without a
\* reply from it.
C5_LocalSkipsResolver ==
  /\ wtx # Nil => wtx[1].RepositoryID \notin DOMAIN db
  /\ (ret.op = "AddMessage" /\ ret.local) => ret.remote = "none"

\* AddMessage appended a second message to a repository of the local store.
C5_Witness ==
  /\ ret.op = "AddMessage"
  /\ ret.local
  /\ ret.remote = "none"
  /\ ret.prev = Nil
  /\ Len(StoredIDs(ret.m[1].RepositoryID)) = 2
  /\ ret.m[1].RepositoryID \notin marked

\* The step in which the transaction waiting on the resolver gets its reply
\* and ends.
RemoteStep == wtx # Nil /\ wtx' = Nil

\* The step of a call that begins and returns with no transaction waiting on
\* the resolver, before or after.
LocalStep == wtx = Nil /\ wtx' = Nil /\ calls' = calls + 1

\* C6: when the repository is absent locally and the resolver returns
\* (nil, nil), AddMessage returns ErrRepositoryNotFound and the store is as
\* it was: no repository record is created and no message is stored.
C6_NotFoundNoChange ==
  [][ (RemoteStep /\ ret'.remote = "notfound") =>
        /\ wtx[1].RepositoryID \notin DOMAIN db
        /\ ret'.op = "AddMessage"
        /\ ret'.m = wtx
        /\ ret'.err = ErrRepositoryNotFound
        /\ db' = db ]_vars

\* AddMessage returned ErrRepositoryNotFound on the resolver's (nil, nil),
\* with another repository in the store.
C6_Witness ==
  /\ ret.op = "AddMessage"
  /\ ret.remote = "notfound"
  /\ ret.err = ErrRepositoryNotFound
  /\ ret.m[1].RepositoryID \notin DOMAIN db
  /\ DOMAIN db # {}

\* C7: when the repository is absent locally and the resolver returns an
\* error, AddMessage returns that error wrapped as "remote: ..." and the
\* store is as it was: the transaction is rolled back.
C7_RemoteErrorNoChange ==
  [][ (RemoteStep /\ ret'.remote = "error") =>
        /\ wtx[1].RepositoryID \notin DOMAIN db
        /\ ret'.op = "AddMessage"
        /\ ret'.m = wtx
        /\ \E e \in RemoteErrors : ret'.err = "remote: " \o e
        /\ db' = db ]_vars

\* AddMessage returned the resolver's error, wrapped, with another
\* repository in the store.
C7_Witness ==
  /\ ret.op = "AddMessage"
  /\ ret.remote = "error"
  /\ ret.err = "remote: get repository: marker"
  /\ ret.m[1].RepositoryID \notin DOMAIN db
  /\ DOMAIN db # {}

\* C8: in every committed state a repository record is in the store iff an
\* AddMessage call materialized it from the resolver's reply, the message of
\* that call is the first one stored in it, and so every repository in the
\* store holds at least one message.
C8_NeverHalfCreated ==
  /\ \A id \in RepoIDs :
       id \in DOMAIN db <=> \E m \in created : m.RepositoryID = id
  /\ \A m \in created :
       /\ m.RepositoryID \in DOMAIN db
       /\ Len(db[m.RepositoryID].Messages) >= 1
       /\ db[m.RepositoryID].Messages[1] = [ ID |-> m.ID, Text |-> m.Text ]
  /\ \A id \in DOMAIN db : Len(db[id].Messages) >= 1

\* AddMessage just created a repository from the resolver's reply, and the
\* record holds the message of that call.
C8_Witness ==
  /\ ret.op = "AddMessage"
  /\ ret.remote = "ok"
  /\ ret.err = NoErr
  /\ ret.m[1] \in created
  /\ ret.m[1].RepositoryID \in DOMAIN db
  /\ StoredIDs(ret.m[1].RepositoryID) = << ret.m[1].ID >>

\* C9: AddMessage with a message whose ID is already stored in the
\* repository, whatever its text, returns nil and leaves the store exactly
\* as it was.
C9_DuplicateNoChange ==
  [][ ( /\ LocalStep
        /\ ret'.op = "AddMessage"
        /\ ret'.m[1].RepositoryID \in DOMAIN db
        /\ CountID(ret'.m[1].RepositoryID, ret'.m[1].ID) >= 1 ) =>
        /\ ret'.err = NoErr
        /\ db' = db ]_vars

\* A message with a stored ID and another text was handed to AddMessage,
\* which returned nil; the repository holds the first text only.
C9_Witness ==
  /\ ret.op = "AddMessage"
  /\ ret.local
  /\ ret.err = NoErr
  /\ LET m == ret.m[1] IN
       /\ StoredIDs(m.RepositoryID) = << m.ID >>
       /\ db[m.RepositoryID].Messages[1].Text # m.Text

\* C10: MarkNotified(id) for an id with no record returns
\* ErrRepositoryNotFound and changes nothing; the call is one write
\* transaction, begun and ended with no other write transaction open.
C10_MarkMissing ==
  [][ (calls' = calls + 1 /\ wtx' = wtx /\ ret'.op = "MarkNotified") =>
        /\ wtx = Nil /\ wtx' = Nil
        /\ ret'.id \notin DOMAIN db =>
             /\ ret'.err = ErrRepositoryNotFound
             /\ db' = db
             /\ marked' = marked ]_vars

\* MarkNotified returned ErrRepositoryNotFound for an id that is not in the
\* store, which holds another repository.
C10_Witness ==
  /\ ret.op = "MarkNotified"
  /\ ret.err = ErrRepositoryNotFound
  /\ ret.id \notin DOMAIN db
  /\ DOMAIN db # {}

\* C11: MarkNotified(id) on a repository for which an earlier MarkNotified
\* returned nil, whether the call just before or any call before that,
\* returns nil again and leaves the store exactly as it was.
C11_MarkTwice ==
  [][ ( /\ calls' = calls + 1 /\ wtx' = wtx
        /\ ret'.op = "MarkNotified"
        /\ ret'.id \in marked ) =>
        /\ ret'.err = NoErr
        /\ db' = db
        /\ db'[ret'.id].Notified ]_vars

\* MarkNotified returned nil twice in a row for a repository that holds a
\* message, next to another repository that is not marked.
C11_Witness ==
  /\ ret.op = "MarkNotified"
  /\ ret.prev = Ptr(NoErr)
  /\ ret.err = NoErr
  /\ db[ret.id].Notified
  /\ Len(db[ret.id].Messages) >= 1
  /\ \E other \in DOMAIN db : ~db[other].Notified

\* The stored last-notify time of an account, 0 when the status bucket holds
\* nothing for it.
LastNotify(username) ==
  IF username \in DOMAIN status THEN status[username].notifyTime ELSE 0

\* The account has no last-notify time, or more than the interval has
\* passed since.
Due(a) == LastNotify(a.Username) = 0 \/ now - LastNotify(a.Username) > interval

\* C12: NotifiableAccounts(accounts, interval) returns, in input order,
\* exactly the accounts that have no stored status or a zero last-notify
\* time, or whose last-notify time lies more than interval back; an account
\* notified less than interval ago is not returned; no bucket is written.
C12_NotifiableAccounts ==
  [][ out'.op = "NotifiableAccounts" =>
        /\ out'.val = SelectSeq(accounts, Due)
        /\ \A i \in 1..Len(accounts) :
             ( /\ LastNotify(accounts[i].Username) # 0
               /\ now - LastNotify(accounts[i].Username) < interval ) =>
               \A j \in 1..Len(out'.val) : out'.val[j] # accounts[i]
        /\ UNCHANGED << repositories, blacklist, status, accounts, interval, now >> ]_vars

\* NotifiableAccounts returned the first account only: both accounts have
\* been notified, the first more than the interval ago and the second
\* exactly the interval ago.
C12_Witness ==
  /\ out.op = "NotifiableAccounts"
  /\ Len(accounts) = 2
  /\ out.val = << accounts[1] >>
  /\ LastNotify(accounts[1].Username) # 0
  /\ now - LastNotify(accounts[1].Username) > interval
  /\ now - LastNotify(accounts[2].Username) = interval

\* C13, as stated: any two successful sends for the same account lie at
\* least the configured notify interval apart.
C13_AsStated ==
  \A s1, s2 \in sent :
    (s1.account = s2.account /\ s1.time < s2.time) =>
      s2.time - s1.time >= interval

C15_StatusWithBlacklist ==
  /\ \A s \in sent : s.repo \in blacklist /\ LastNotify(s.account) >= s.time
  /\ \A u \in DOMAIN status :
       \E s \in sent :
         s.account = u /\ s.time = status[u].notifyTime /\ s.repo \in blacklist
  /\ \A id \in blacklist :
       \E s \in sent : s.repo = id /\ s.account \in DOMAIN status

\* The same, with the no-resend conjunct of C14 for the earlier loop.
LoopNoResend ==
  \A s1, s2 \in sent :
    (s1.account = s2.account /\ s1.repo = s2.repo) => s1 = s2

\* The two accounts were notified in different rounds, each of its own
\* repository: two status records, two blacklisted repositories.
C15_Witness ==
  /\ Cardinality(sent) = 2
  /\ Cardinality(blacklist) = 2
  /\ DOMAIN status = Usernames
  /\ status["a1"].notifyTime # status["a2"].notifyTime

\* C16: AddMessage with a message ID that is not stored yet, on a repository
\* whose Notified flag is set, returns nil, appends the message to the
\* repository's messages and leaves the flag set and every other record as
\* it was.
C16_NotifiedStillReceives ==
  [][ ( /\ LocalStep
        /\ ret'.op = "AddMessage"
        /\ ret'.m[1].RepositoryID \in DOMAIN db
        /\ db[ret'.m[1].RepositoryID].Notified
        /\ CountID(ret'.m[1].RepositoryID, ret'.m[1].ID) = 0 ) =>
        LET m == ret'.m[1]
            id == m.RepositoryID
        IN /\ ret'.err = NoErr
           /\ DOMAIN db' = DOMAIN db
           /\ db'[id].Messages = Append(db[id].Messages, [ ID |-> m.ID, Text |-> m.Text ])
           /\ db'[id].Notified
           /\ db'[id] = [ db[id] EXCEPT !.Messages = db'[id].Messages ]
           /\ \A k \in DOMAIN db : k # id => db'[k] = db[k] ]_vars

\* A repository marked notified while it held one message has taken a
\* second one, and the other repository of the store is not marked.
C16_Witness ==
  /\ ret.op = "AddMessage"
  /\ ret.err = NoErr
  /\ ret.local
  /\ LET m == ret.m[1] IN
       /\ m.RepositoryID \in marked
       /\ db[m.RepositoryID].Notified
       /\ Len(db[m.RepositoryID].Messages) = 2
       /\ db[m.RepositoryID].Messages[2] = [ ID |-> m.ID, Text |-> m.Text ]
       /\ \E k \in DOMAIN db : ~db[k].Notified

\* The IDs and texts of the messages Store.Repository(id) returns, in order.
ReadMessages(b, id) ==
  LET r == StoreRepository(b, id)[1] IN
  [ i \in 1..Len(r.Messages) |-> [ ID |-> r.Messages[i].ID, Text |-> r.Messages[i].Text ] ]

\* C17: no step removes, reorders or alters a stored message: what
\* Store.Repository returned before the step is a prefix of what it returns
\* after it; a step adds at most one message, at the end, and that message
\* is the one of the AddMessage call that returns nil in the step.
C17_AppendOnly ==
  [][ /\ \A id \in DOMAIN db :
           /\ id \in DOMAIN db'
           /\ Len(ReadMessages(db', id)) >= Len(ReadMessages(db, id))
           /\ SubSeq(ReadMessages(db', id), 1, Len(ReadMessages(db, id)))
                 = ReadMessages(db, id)
      /\ \A id \in DOMAIN db' :
           LET old == IF id \in DOMAIN db THEN ReadMessages(db, id) ELSE << >>
           IN ReadMessages(db', id) # old =>
                /\ ret'.op = "AddMessage"
                /\ ret'.err = NoErr
                /\ ret'.m[1].RepositoryID = id
                /\ ReadMessages(db', id)
                     = Append(old, [ ID |-> ret'.m[1].ID, Text |-> ret'.m[1].Text ]) ]_vars

\* A repository that took mention 2 before mention 1 reads back in that
\* order after it has been marked notified.
C17_Witness ==
  /\ ret.op = "MarkNotified"
  /\ ret.err = NoErr
  /\ ReadMessages(db, ret.id) = << [ ID |-> 2, Text |-> "A" ], [ ID |-> 1, Text |-> "B" ] >>

\* The fields of a repository other than its messages.
Header(r) ==
  [ ID |-> r.ID, Description |-> r.Description, Language |-> r.Language,
    Notified |-> r.Notified ]

\* C18 as stated: a message read back names the repository that owns it.
C18_AsStated ==
  \A id \in DOMAIN db :
    \A i \in 1..Len(db[id].Messages) :
      StoreRepository(db, id)[1].Messages[i].RepositoryID = id

\* C18: a record reads back as it was written but for the owning repository
\* ID of its messages, which reads back empty.  A repository the resolver
\* returned reads back with the resolver's ID, description, language and
\* notified flag; a message just appended reads back last with the ID and
\* the text it was handed in with; MarkNotified changes the notified flag to
\* true and no other field; and Repositories and TopRepositories return the
\* records Repository returns.
C18_RoundTrip ==
  [][ /\ (ret'.op = "AddMessage" /\ ret'.err = NoErr /\ ret'.remote = "ok"
           /\ wtx # Nil) =>
           LET id == ret'.m[1].RepositoryID
               r == StoreRepository(db', id)[1]
           IN /\ Header(r) = Header(ret'.reply[1].repo[1])
              /\ r.Messages = << [ ID |-> ret'.m[1].ID, Text |-> ret'.m[1].Text,
                                   RepositoryID |-> "" ] >>
      /\ \A id \in DOMAIN db :
           Len(db'[id].Messages) > Len(db[id].Messages) =>
             LET r == StoreRepository(db', id)[1] IN
             /\ Header(r) = Header(StoreRepository(db, id)[1])
             /\ r.Messages[Len(r.Messages)]
                  = [ ID |-> ret'.m[1].ID, Text |-> ret'.m[1].Text,
                      RepositoryID |-> "" ]
      /\ (ret'.op = "MarkNotified" /\ ret'.err = NoErr /\ calls' = calls + 1) =>
           LET r == StoreRepository(db', ret'.id)[1]
               o == StoreRepository(db, ret'.id)[1]
           IN /\ r.Notified
              /\ r = [ o EXCEPT !.Notified = TRUE ]
      /\ \A i \in 1..Len(Repositories(db')) :
           Ptr(Repositories(db')[i])
             = StoreRepository(db', Repositories(db')[i].ID)
      /\ { Repositories(db')[i].ID : i \in 1..Len(Repositories(db')) }
           = DOMAIN db'
      /\ \A l \in DOMAIN TopRepositories(db') :
           Ptr(TopRepositories(db')[l])
             = StoreRepository(db', TopRepositories(db')[l].ID) ]_vars

\* A repository with a description and a language was marked notified and
\* holds a message handed in with the repository's ID.
C18_Witness ==
  /\ ret.op = "MarkNotified"
  /\ ret.err = NoErr
  /\ LET r == StoreRepository(db, ret.id)[1] IN
     /\ r.Notified
     /\ r.Description # ""
     /\ r.Language # ""
     /\ Len(r.Messages) = 2
     /\ \E m \in created : m.RepositoryID = ret.id /\ m.ID = r.Messages[1].ID

\* C19: after PutRepository(r), Repository(r.ID) returns r, message list
\* included, whatever was stored under r.ID, and the record of every other
\* ID is as it was.
C19_PutIsUpsert ==
  [][ (out'.op = "PutRepository" /\ calls' = calls + 1) =>
        LET r == out'.r[1] IN
        /\ Repository(repositories', r.ID) = Ptr(r)
        /\ DOMAIN repositories' = DOMAIN repositories \cup {r.ID}
        /\ \A k \in DOMAIN repositories \ {r.ID} :
             /\ repositories'[k] = repositories[k]
             /\ Repository(repositories', k) = Repository(repositories, k) ]_vars

\* A repository holding two messages was put again with one message, with
\* another repository in the store.
C19_Witness ==
  /\ out.op = "PutRepository"
  /\ out.old # Nil
  /\ Len(out.old[1].Messages) = 2
  /\ Len(out.r[1].Messages) = 1
  /\ Repository(repositories, out.r[1].ID) = out.r
  /\ \E k \in DOMAIN repositories :
       k # out.r[1].ID /\ Len(Repository(repositories, k)[1].Messages) > 0

\* C20: a Repositories or TopRepositories call returns what the call
\* computes on the store as committed when its read began, whatever writers
\* commit while it runs: every repository in the result was stored then,
\* with the messages and the flag it had then.
C20_Snapshot ==
  [][ (rtx # Nil /\ rtx' = Nil) =>
        LET began == rtx[1].began IN
        /\ ret'.op = rtx[1].op
        /\ ret'.op = "TopRepositories" =>
             /\ ret'.val = TopRepositories(began)
             /\ \A l \in DOMAIN ret'.val :
                  /\ ret'.val[l].ID \in DOMAIN began
                  /\ ret'.val[l] = StoreRepository(began, ret'.val[l].ID)[1]
        /\ ret'.op = "Repositories" =>
             /\ ret'.val = Repositories(began)
             /\ \A i \in 1..Len(ret'.val) :
                  /\ ret'.val[i].ID \in DOMAIN began
                  /\ ret'.val[i] = StoreRepository(began, ret'.val[i].ID)[1] ]_vars

\* A read that met a repository returned while the store, committed by a
\* writer during the read, holds a repository the result does not show.
C20_Witness ==
  /\ rtx = Nil
  /\ ret.op = "Repositories"
  /\ Len(ret.val) = 1
  /\ Cardinality(DOMAIN db) = 2

\* C21: writes are applied one on top of the other.  A MarkNotified that
\* returns nil sets the flag on the record as the last writer committed it,
\* its messages kept; an AddMessage that appends does so on the record as
\* the last writer committed it, its flag kept; so a repository that was
\* marked is notified and holds every message appended before or after.
C21_NoLostUpdate ==
  [][ /\ \A id \in DOMAIN db :
           /\ id \in DOMAIN db'
           /\ db[id].Notified => db'[id].Notified
           /\ \A i \in 1..Len(db[id].Messages) :
                \E j \in 1..Len(db'[id].Messages) :
                  db'[id].Messages[j] = db[id].Messages[i]
      /\ \A id \in marked' : id \in DOMAIN db' /\ db'[id].Notified
      /\ (ret'.op = "MarkNotified" /\ ret'.err = NoErr /\ calls' = calls + 1) =>
           db' = [ db EXCEPT ![ret'.id].Notified = TRUE ]
      /\ (ret'.op = "AddMessage" /\ ret'.err = NoErr /\ ret'.local
           /\ calls' = calls + 1) =>
           LET id == ret'.m[1].RepositoryID IN
           /\ \E j \in 1..Len(db'[id].Messages) :
                db'[id].Messages[j].ID = ret'.m[1].ID
           /\ db'[id].Notified = db[id].Notified
           /\ \A k \in DOMAIN db \ {id} : db'[k] = db[k] ]_vars

\* The poller's AddMessage appended to a repository the notifier had marked,
\* which holds a message from before the mark as well.
C21_Witness ==
  /\ ret.op = "AddMessage"
  /\ ret.err = NoErr
  /\ ret.local
  /\ ret.m[1].RepositoryID \in marked
  /\ LET r == db[ret.m[1].RepositoryID] IN
     /\ r.Notified
     /\ Len(r.Messages) = 2
     /\ r.Messages[2].ID = ret.m[1].ID

\* C22: while an AddMessage waits on the resolver inside its transaction,
\* no other AddMessage and no MarkNotified returns or commits: the store
\* and the history of marks stay as they are until the waiting call has its
\* answer, and that step is the waiting call's own commit or rollback.
C22_WriterHeld ==
  [][ wtx # Nil =>
        /\ marked' = marked
        /\ calls' = calls + 1 => (ret'.op = "TopRepositories" /\ db' = db /\ wtx' = wtx)
        /\ (db' # db \/ wtx' # wtx) =>
             /\ wtx' = Nil
             /\ ret'.op = "AddMessage"
             /\ ret'.m = wtx
             /\ \A k \in DOMAIN db : db'[k] = db[k] ]_vars

\* An AddMessage waits on the resolver while the store holds a repository
\* that is not notified and callers have calls left to make.
C22_Witness ==
  /\ wtx # Nil
  /\ calls < MaxCalls
  /\ \E id \in DOMAIN db : ~db[id].Notified /\ Len(db[id].Messages) = 1

\* C23 as stated: an AddMessage waiting on the resolver always comes to
\* release the write transaction.
C23_AsStated == (wtx # Nil) ~> (wtx = Nil)

\* C23: AddMessage releases the write transaction when the resolver
\* answers and not before: if the resolver answers the calls it is handed,
\* every waiting AddMessage comes to release the write transaction, and
\* with it a MarkNotified can commit; no step but the resolver's answer
\* releases it.
C23_ReleasedOnAnswer ==
  /\ WF_vars(ResolverSteps) => ((wtx # Nil) ~> (wtx = Nil))
  /\ [][ (wtx # Nil /\ wtx' = Nil) =>
           (ret'.op = "AddMessage" /\ ret'.m = wtx /\ ret'.reply # Nil) ]_vars

\* The resolver answered an AddMessage that waited, and a MarkNotified
\* committed after it.
C23_Witness ==
  /\ wtx = Nil
  /\ created # {}
  /\ ret.op = "MarkNotified"
  /\ ret.err = NoErr
  /\ \E m \in created : m.RepositoryID = ret.id

\* C24 as stated: once Close has been called the closing channel is closed,
\* Close waits for the goroutines or has returned, and it has returned only
\* when both goroutines have.
C24_AsStated ==
  pc["closer"] # "none" =>
    /\ closing = "closed"
    /\ pc["closer"] \in {"waiting", "returned"}
    /\ pc["closer"] = "returned" => \A g \in Goroutines : pc[g] = "done"

\* C25 as stated: sinceID is below the ID of every message whose last
\* AddMessage made poll return an error.
C25_AsStated == \A id \in failed : sinceID < id

\* C25: when AddMessage fails for a message with an error other than
\* repository-not-found, poll returns at once and the poller goes on to its
\* wait; that turn leaves sinceID as it is, so the message is found again by
\* the next search unless sinceID already is past its ID.  sinceID moves
\* only when a message is stored, is a duplicate or has no repository, and
\* then to that message's ID when it is the higher: it is past the ID of a
\* failed message only when a message with a higher ID came before it in
\* the results.
C25_FailedNotAdvanced ==
  [][ /\ \A id \in failed' \ failed :
           /\ batch # Nil /\ Head(batch[1]).ID = id
           /\ sinceID' = sinceID
           /\ batch' = Nil
           /\ pc'["poller"] = "wait"
           /\ db' = db
           /\ sinceID < id => id \in Found(sinceID')
      /\ sinceID' # sinceID =>
           /\ batch # Nil
           /\ sinceID' = Head(batch[1]).ID
           /\ sinceID' > sinceID
           /\ sinceID' \notin failed'
      /\ \A id \in failed' : sinceID' >= id =>
           (sinceID' > id /\ sinceID' \notin failed') ]_vars

\* A message whose AddMessage failed is in the results of a later search,
\* next to be handed to AddMessage again, with another message stored.
C25_Witness ==
  /\ pc["poller"] = "poll"
  /\ batch # Nil
  /\ Head(batch[1]).ID \in failed
  /\ sinceID < Head(batch[1]).ID
  /\ db # << >>

\* C26 as stated: no write transaction is under way for a message with a
\* repository ID of other than three segments or with the ID zero, and no
\* such message is stored.
C26_AsStated ==
  /\ wtx # Nil => (segments(wtx[1].RepositoryID) = 3 /\ wtx[1].ID # 0)
  /\ \A id \in DOMAIN db :
       /\ segments(id) = 3
       /\ \A i \in 1..Len(db[id].Messages) : db[id].Messages[i].ID # 0

\* C26: AddMessage with a repository ID of other than three segments is
\* turned down by the resolver inside the write transaction: it returns
\* "remote: invalid repository id", the transaction is rolled back and no
\* repository is ever stored under such an ID.  A message ID of zero is not
\* turned down: when AddMessage returns nil the message is in the store.
C26_RejectedByResolver ==
  [][ /\ \A id \in DOMAIN db' : segments(id) = 3
      /\ (wtx # Nil /\ wtx' = Nil /\ segments(wtx[1].RepositoryID) # 3) =>
           /\ ret'.err = WrapRemote(ErrInvalidRepositoryID)
           /\ ret'.m = wtx
           /\ db' = db
      /\ (ret' # ret /\ ret'.op = "AddMessage" /\ ret'.err = NoErr
           /\ ret'.m[1].ID = 0) =>
           LET id == ret'.m[1].RepositoryID IN
           /\ id \in DOMAIN db'
           /\ \E i \in 1..Len(db'[id].Messages) : db'[id].Messages[i].ID = 0 ]_vars

\* A message with the ID zero is stored, and the last call, on a repository
\* ID of two segments, has returned the resolver's error.
C26_Witness ==
  /\ ret.op = "AddMessage"
  /\ ret.m[1].RepositoryID = MalformedID
  /\ ret.err = WrapRemote(ErrInvalidRepositoryID)
  /\ \E id \in DOMAIN db : \E i \in 1..Len(db[id].Messages) : db[id].Messages[i].ID = 0

\* The keys of the store whose values decode.
Decodable == { k \in DOMAIN db : protoUnmarshal(db[k]).err = NoErr }

\* C27 as stated: a read returns no error, Repositories returns every
\* repository that decodes, and TopRepositories what it returns on the
\* store without the values that do not decode.
C27_AsStated ==
  /\ ret.op \in ReadOps => ret.err = NoErr
  /\ ret.op = "Repositories" =>
       { ret.val[i].ID : i \in 1..Len(ret.val) } = Decodable
  /\ ret.op = "TopRepositories" =>
       ret.val = TopRepositories([ k \in Decodable |-> db[k] ])

\* C27: a value that does not decode fails the whole read.  Repositories
\* and TopRepositories return the decoding error as soon as the cursor
\* meets such a value, with what the keys before it gave; they return no
\* error, and the result of the whole store, when every value decodes.
C27_ReadFails ==
  LET bad == { i \in 1..Len(AllKeys) :
                 AllKeys[i] \in DOMAIN db /\ AllKeys[i] \notin Decodable }
      before == IF bad = {} THEN Decodable
                ELSE { AllKeys[i] : i \in { j \in 1..Len(AllKeys) : \A x \in bad : j < x } }
                       \cap DOMAIN db
      seen == [ k \in before |-> db[k] ]
  IN ret.op \in ReadOps =>
       /\ ret.err = IF bad = {} THEN NoErr ELSE errUnmarshal
       /\ ret.op = "Repositories" => ret.val = Repositories(seen)
       /\ ret.op = "TopRepositories" => ret.val = TopRepositories(seen)

\* A read has met a value that does not decode, after a repository that
\* decodes and would have been returned.
C27_Witness ==
  /\ ret.op = "TopRepositories"
  /\ ret.err = errUnmarshal
  /\ DOMAIN ret.val # {}
  /\ Decodable # {}
  /\ Decodable # DOMAIN db

\* C28: ForEachRepository visits the stored repositories whose IDs are not
\* on the blacklist and no other, and TopRepositoriesByLanguage returns
\* none that is on it; an ID leaves the blacklist only in a
\* RemoveFromBlacklist of that ID, which leaves the repositories as they
\* are, so that the repository is visited again with its messages.
C28_BlacklistIff ==
  [][ LET visited == ForEachRepository(repositories', blacklist')
          top == TopRepositoriesByLanguage(repositories', blacklist')
      IN /\ { visited[i].ID : i \in 1..Len(visited) }
              = DOMAIN repositories' \ blacklist'
         /\ \A l \in DOMAIN top : top[l].ID \notin blacklist'
         /\ \A id \in DOMAIN repositories' \ blacklist' :
              Repository(repositories', id)[1].Language \in DOMAIN top
         /\ out'.op = "TopRepositoriesByLanguage" => out'.val = top
         /\ \A id \in blacklist \ blacklist' :
              /\ out'.op = "RemoveFromBlacklist"
              /\ out'.id = id
              /\ repositories' = repositories
              /\ id \in DOMAIN repositories =>
                   \E i \in 1..Len(visited) :
                     Ptr(visited[i]) = Repository(repositories, id) ]_vars

\* A repository with a message was put on the blacklist and taken off it,
\* and is the top repository of its language again.
C28_Witness ==
  /\ out.op = "RemoveFromBlacklist"
  /\ out.old = Ptr(out.id)
  /\ out.id \in DOMAIN repositories
  /\ blacklist # {}
  /\ LET top == TopRepositoriesByLanguage(repositories, blacklist) IN
     /\ LanguageOf(out.id) \in DOMAIN top
     /\ top[LanguageOf(out.id)].ID = out.id
     /\ Len(top[LanguageOf(out.id)].Messages) = 1

\* C29: the resolver returns a repository for an ID at most once.  The
\* answer that does is given for an ID that is not in the store and for
\* which no record was materialized before, and it leaves the record in the
\* store; and an AddMessage for an ID that is in the store does not ask the
\* resolver.
C29_ResolvedOnce ==
  [][ /\ (wtx # Nil /\ wtx' = Nil /\ ret'.reply # Nil /\ ret'.reply[1].kind = "ok") =>
           LET id == wtx[1].RepositoryID IN
           /\ id \notin DOMAIN db
           /\ id \in DOMAIN db'
           /\ \A m \in created : m.RepositoryID # id
           /\ created' = created \cup { wtx[1] }
      /\ (wtx = Nil /\ wtx' # Nil) => wtx'[1].RepositoryID \notin DOMAIN db
      /\ \A id \in DOMAIN db : id \in DOMAIN db' ]_vars

\* A repository the resolver returned has taken a second message from the
\* local store, the resolver not asked.
C29_Witness ==
  /\ ret.op = "AddMessage"
  /\ ret.err = NoErr
  /\ ret.local
  /\ ret.remote = "none"
  /\ ret.reply = Nil
  /\ \E m \in created : m.RepositoryID = ret.m[1].RepositoryID /\ m # ret.m[1]
  /\ Len(db[ret.m[1].RepositoryID].Messages) = 2

\* C30: the keys of the TopRepositories result are the languages of the
\* repositories that are not notified, the empty language one of them:
\* under each key is a repository of that language that is not notified.
C30_KeysAreLanguages ==
  LET top == TopRepositories(db) IN
  /\ DOMAIN top = { db[k].Language : k \in { x \in DOMAIN db : ~db[x].Notified } }
  /\ \A l \in DOMAIN top :
       /\ top[l].ID \in DOMAIN db
       /\ db[top[l].ID].Language = l
       /\ ~db[top[l].ID].Notified
  /\ ret.op = "TopRepositories" =>
       \A l \in DOMAIN ret.val : ret.val[l].Language = l /\ ~ret.val[l].Notified

\* TopRepositories has returned a repository under the empty language and
\* none under the language whose only repository is notified.
C30_Witness ==
  /\ ret.op = "TopRepositories"
  /\ DOMAIN ret.val = { "" }
  /\ \E k \in DOMAIN db : db[k].Notified /\ db[k].Language = "go"

\* C31: a round of the notifier in which no send succeeds, a failed send
\* among them, leaves every account's cached last tweet time, the store and
\* with it the top repositories as they are; an account's last tweet time
\* changes only in a round that records a successful send of that account,
\* to the time of that send.
C31_OnlyOnSuccess ==
  [][ /\ (tick # Nil /\ tick' # Nil /\ tick'[1].i = tick[1].i + 1 /\ sent' = sent) =>
           /\ lastTweetTime' = lastTweetTime
           /\ timeline' = timeline
           /\ db' = db
           /\ marked' = marked
           /\ TopRepositories(db') = TopRepositories(db)
      /\ \A u \in Usernames :
           lastTweetTime'[u] # lastTweetTime[u] =>
             \E x \in sent' \ sent : x.account = u /\ x.time = lastTweetTime'[u] ]_vars

\* An account whose cached last tweet time is a full interval old was gone
\* through in this round with a repository of its language at hand, and no
\* send of it is recorded: its send failed.  Its time is as it was and the
\* repository is not notified.
C31_Witness ==
  /\ tick # Nil
  /\ tick[1].i > 1
  /\ LET a == accounts[1] IN
     /\ ~IsZero(lastTweetTime[a.Username])
     /\ now - lastTweetTime[a.Username] >= DefaultNotifyInterval
     /\ a.Language \in DOMAIN tick[1].repos
     /\ ~db[tick[1].repos[a.Language].ID].Notified
     /\ \A x \in sent : x.account = a.Username => x.time < now

\* The last tweet time the notifier of u goes by when every request is
\* answered: the cached one, or the latest in the timeline.
KnownLastTweet(u) ==
  IF ~IsZero(lastTweetTime[u]) THEN lastTweetTime[u] ELSE timeline[u]

\* C32: in every reachable state of the running program a repository whose
\* Notified flag is set has a send in the history; and the step that sets
\* the flag is the one that records the send, at the present time, of an
\* account whose last tweet was not within the interval: gate, send, mark.
C32_MarkedAfterSend ==
  /\ [](\A id \in DOMAIN db : db[id].Notified => \E x \in sent : x.repo = id)
  /\ [][ \A id \in DOMAIN db' :
           (db'[id].Notified /\ ~(id \in DOMAIN db /\ db[id].Notified)) =>
             \E x \in sent' \ sent :
               /\ x.repo = id
               /\ x.time = now
               /\ ~withinInterval(KnownLastTweet(x.account), now) ]_vars

\* The repository the poller has stored in this run was sent and marked,
\* after an earlier round in which the first one was.
C32_Witness ==
  /\ \E id \in DOMAIN db :
       /\ id \notin DOMAIN StoreAtStart
       /\ db[id].Notified
       /\ \E x \in sent : x.repo = id /\ x.time > 1
  /\ db[AllKeys[1]].Notified

\* C33 as stated: no two sends in the history, of whatever accounts, are
\* for the same repository.
C33_AsStated ==
  \A s1, s2 \in sent : s1.repo = s2.repo => s1 = s2

\* C33: two sends of one repository are of the same round of the notifier,
\* to accounts of the same language: no repository is sent in two rounds.
C33_OncePerRound ==
  \A s1, s2 \in sent :
    s1.repo = s2.repo =>
      /\ s1.time = s2.time
      /\ \A i, j \in 1..Len(accounts) :
           (accounts[i].Username = s1.account /\ accounts[j].Username = s2.account) =>
             accounts[i].Language = accounts[j].Language

\* Both accounts tweet about one language and were sent the same repository
\* in one round; a later round has sent another repository.
C33_Witness ==
  /\ \E s1, s2 \in sent :
       s1.repo = s2.repo /\ s1.account # s2.account /\ s1.time = s2.time
  /\ \E s1, s2 \in sent : s1.repo # s2.repo /\ s1.time < s2.time

\* The IDs of the messages of the poll under way that are still to be gone
\* through.
Pending == IF batch = Nil THEN {} ELSE { batch[1][k].ID : k \in 1..Len(batch[1]) }

\* The highest of a non-empty set of IDs.
Highest(S) == CHOOSE x \in S : \A y \in S : y <= x

\* C34: sinceID never decreases; a turn of the loop over the messages of a
\* poll that does not end the poll with an error leaves the highest of
\* sinceID and the IDs still to be gone through as it is, so that when the
\* last message has been gone through sinceID is the highest of its value
\* before the poll and the IDs of all messages returned, in whatever order
\* they were returned.
C34_HighWaterMark ==
  [][ /\ sinceID' >= sinceID
      /\ (batch # Nil /\ batch' # batch /\ Head(batch[1]).ID \notin failed') =>
           /\ Highest({sinceID'} \cup Pending') = Highest({sinceID} \cup Pending)
           /\ batch' = Nil => sinceID' = Highest({sinceID} \cup Pending) ]_vars

\* The messages of a poll came highest ID first: the first has been gone
\* through, and sinceID is above the ID of the one that is next.
C34_Witness ==
  /\ batch # Nil
  /\ sinceID > Head(batch[1]).ID
  /\ failed = {}
  /\ sinceID = Highest({sinceID} \cup Pending)

\* C35: when AddMessage returns ErrRepositoryNotFound in a poll, poll does
\* not return: the poller stays in the poll with the rest of the messages
\* next, or has gone through the last one; the message is not among the
\* failed ones, nothing is stored, and sinceID is at or above the message's
\* ID, so the next search does not find it.
C35_NotFoundSkipped ==
  [][ ( /\ batch # Nil
        /\ batch' # batch
        /\ ret'.op = "AddMessage"
        /\ ret'.err = ErrRepositoryNotFound ) =>
        LET m == Head(batch[1]) IN
        /\ ret'.m = Ptr(m)
        /\ db' = db
        /\ m.ID \notin failed'
        /\ sinceID' >= m.ID
        /\ m.ID \notin Found(sinceID')
        /\ IF Len(batch[1]) > 1
             THEN batch' = Ptr(Tail(batch[1])) /\ pc'["poller"] = "poll"
             ELSE batch' = Nil /\ pc'["poller"] = "wait" ]_vars

\* The first message of a poll had no repository and was passed over: the
\* poller is in the same poll with the next message, and sinceID is the ID
\* of the one passed over.
C35_Witness ==
  /\ pc["poller"] = "poll"
  /\ batch # Nil
  /\ ret.op = "AddMessage"
  /\ ret.err = ErrRepositoryNotFound
  /\ ret.m[1].RepositoryID \notin DOMAIN db
  /\ sinceID = ret.m[1].ID
  /\ Head(batch[1]).ID > sinceID
  /\ failed = {}

\* The times of the tweets Notify has posted for u in this run.
Tweeted(u) == { x.time : x \in { y \in sent : y.account = u } }

\* C36: once a Notify of an account has succeeded, LastTweetTime of that
\* account returns the time of the latest tweet Notify has posted, with no
\* error, whatever the client would do with a request: none is sent.  As
\* long as no Notify of the account has succeeded, the outcome is that of
\* the request: the client's error, or the latest time on the timeline.
C36_CachedAfterNotify ==
  \A u \in Usernames :
    IF Tweeted(u) # {}
      THEN \A reply \in ClientReplies :
             LastTweetTime(lastTweetTime[u], timeline[u], reply)
               = [ err |-> NoErr, t |-> Highest(Tweeted(u)) ]
      ELSE /\ LastTweetTime(lastTweetTime[u], timeline[u], "error").err # NoErr
           /\ LastTweetTime(lastTweetTime[u], timeline[u], "ok")
                = [ err |-> NoErr, t |-> timeline[u] ]

\* The first account has tweeted in an earlier round and has been gone
\* through again in this one; the second has not tweeted yet.
C36_Witness ==
  /\ tick # Nil
  /\ tick[1].i > 1
  /\ \E t \in Tweeted(accounts[1].Username) : t < now
  /\ Tweeted(accounts[2].Username) = {}

\* C37: a MarkNotified(id) call, whatever it returns, leaves the store with
\* the same repositories; read back with Repository, the one under id has
\* the ID, description, language and messages it had before, and every
\* other one is as it was, flag included.
C37_MarkFrame ==
  [][ (calls' = calls + 1 /\ wtx' = wtx /\ ret'.op = "MarkNotified") =>
        /\ DOMAIN db' = DOMAIN db
        /\ \A k \in DOMAIN db :
             LET before == StoreRepository(db, k)[1]
                 after == StoreRepository(db', k)[1]
             IN IF k = ret'.id
                  THEN /\ after.ID = before.ID
                       /\ after.Description = before.Description
                       /\ after.Language = before.Language
                       /\ after.Messages = before.Messages
                  ELSE after = before ]_vars

\* MarkNotified has set the flag of a repository with a description, a
\* language and two messages, next to another repository that holds a
\* message and is not flagged.
C37_Witness ==
  /\ ret.op = "MarkNotified"
  /\ ret.err = NoErr
  /\ ret.prev = Nil
  /\ LET r == StoreRepository(db, ret.id)[1] IN
     /\ r.Notified
     /\ r.Description # ""
     /\ r.Language # ""
     /\ Len(r.Messages) = 2
  /\ \E k \in DOMAIN db :
       k # ret.id /\ ~db[k].Notified /\ Len(db[k].Messages) = 1

\* The account has no last tweet, or its last tweet is a full interval old.
DueNow(a) ==
  \/ IsZero(KnownLastTweet(a.Username))
  \/ now - KnownLastTweet(a.Username) >= DefaultNotifyInterval

\* The notifier has yet to come to the i-th account with the repositories
\* of the store as it is: in a round yet to begin, or in the round under
\* way when that has a repository of the account's language.
Ahead(i) ==
  \/ tick = Nil
  \/ now < DefaultNotifyInterval + MaxOver
  \/ tick[1].i <= i /\ accounts[i].Language \in DOMAIN tick[1].repos

\* The i-th account is due and the store has an eligible repository of its
\* language.
Waiting(i) ==
  /\ DueNow(accounts[i])
  /\ Eligible(accounts[i].Language) # {}
  /\ Ahead(i)

\* The i-th account has been sent a repository at its last tweet time,
\* which is within the interval, and that repository is marked notified.
Served(i) ==
  /\ ~DueNow(accounts[i])
  /\ \E x \in sent :
       /\ x.account = accounts[i].Username
       /\ x.time = lastTweetTime[x.account]
       /\ db[x.repo].Notified
       /\ db[x.repo].Language = accounts[i].Language

====
